---- MODULE Spec2Model ----
(***************************************************************************)
(* A model of the atari2600_lib emulator core: the position counter, the   *)
(* address decoders, the outer bus, the 6507 ADC instruction, the RIOT     *)
(* timer, the TIA pixel pipeline and the scanline loop that clocks the     *)
(* three chips.  Every method of the source is a pure operator from the    *)
(* record of the object's fields to the record after the call; the actions *)
(* apply them.  Option<T> is the empty tuple (None) or a one-tuple.        *)
(***************************************************************************)
EXTENDS Integers, Sequences, FiniteSets, TLC

VARIABLES
    checks,   \* TRUE in a build with overflow checks (debug), FALSE without (release)
    fault,    \* TRUE once the process has panicked (unwrap on None, overflow check)
    cnt,      \* a tia::counter::Counter
    cntObs,   \* observer of the counter: clocks and "clocked" results since reset()
    dec,      \* the decoder's input and output: address, operation, result
    cpu,      \* CPU6507 registers and flags
    cpuObs,   \* observer of the processor: the inputs of the last instruction
    riot,     \* the RIOT chip
    riotObs,  \* observer of the timer: the last interval write and the clocks since
    tia,      \* the TIA chip
    tiaObs,   \* observer of the TIA: clocks since power-on, the last operation
    rom,      \* the cartridge image as the bus holds it: offset -> byte, where written
    busObs,   \* observer of the outer bus: the last access and what it returned
    core      \* EmulatorCore::scanline: the loop index and the clocks it has issued;
              \* in SpecAudio a tia::audio::Audio with the calls made on it

vars == <<checks, fault, cnt, cntObs, dec, cpu, cpuObs, riot, riotObs, tia, tiaObs, rom, busObs, core>>

----------------------------------------------------------------------------
(* Bit operations on naturals.                                             *)

RECURSIVE BitAnd(_, _)
BitAnd(a, b) ==
    IF a = 0 \/ b = 0 THEN 0
    ELSE (a % 2) * (b % 2) + 2 * BitAnd(a \div 2, b \div 2)

RECURSIVE BitOr(_, _)
BitOr(a, b) ==
    IF a = 0 THEN b
    ELSE IF b = 0 THEN a
    ELSE (IF a % 2 = 1 \/ b % 2 = 1 THEN 1 ELSE 0) + 2 * BitOr(a \div 2, b \div 2)

RECURSIVE BitXor(_, _)
BitXor(a, b) ==
    IF a = 0 THEN b
    ELSE IF b = 0 THEN a
    ELSE ((a + b) % 2) + 2 * BitXor(a \div 2, b \div 2)

\* The element of a one-element set.  The({ F(v) : v \in {e} }) is F(e) with e
\* worked out once, however often F uses it.
The(S) == CHOOSE x \in S : TRUE

None == <<>>
Some(v) == <<v>>
IsSome(o) == o # <<>>

----------------------------------------------------------------------------
(* tia/counter.rs                                                          *)

DIVIDER == 4

\* the mutant of ticks_to_add that takes the nibble as it is
ticks_to_add_unsigned(v) == v \div 16

ticks_to_add(v) ==
    LET nibble == v \div 16
    IN  IF nibble < 8 THEN nibble + 8 ELSE nibble - 8

Counter_new(period, reset_value) ==
    [ period |-> period, reset_value |-> reset_value,
      internal_value |-> 0, reset_delay |-> 0,
      last_value |-> 0, ticks_added |-> 0, movement_required |-> FALSE ]

Counter_value(c) == c.internal_value \div DIVIDER

Counter_reset(c) == [c EXCEPT !.internal_value = c.reset_value * DIVIDER]

Counter_reset_to(c, v) == [c EXCEPT !.internal_value = v]

\* the mutant of reset_to_h1() that leaves the two-phase clock where it is
Counter_reset_to_h1_no_snap(c) == [c EXCEPT !.reset_delay = 8]

Counter_reset_to_h1(c) ==
    [c EXCEPT !.internal_value = Counter_value(c) * DIVIDER, !.reset_delay = 8]

\* clock(): the pair of the counter after the call and the value returned.
Counter_clock(c) ==
    LET d  == IF c.reset_delay > 0 THEN c.reset_delay - 1 ELSE 0
        c1 == IF c.reset_delay > 0 /\ d = 0
              THEN [Counter_reset(c) EXCEPT !.reset_delay = d]
              ELSE [c EXCEPT !.reset_delay = d]
        iv == (c1.internal_value + 1) % (c1.period * DIVIDER)
    IN  [ c |-> [c1 EXCEPT !.internal_value = iv, !.last_value = iv \div DIVIDER],
          clocked |-> c.last_value # (iv \div DIVIDER) ]

Counter_start_hmove(c, hm_val) ==
    [c EXCEPT !.ticks_added = 0, !.movement_required = (ticks_to_add(hm_val) # 0)]

\* apply_hmove(): the counter after the call, the HMoveResult, and whether the u8
\* ticks_added += 1 overflowed (a panic in a build with overflow checks, a wrap
\* to 0 in one without).
Counter_apply_hmove(c, hm_val) ==
    IF c.movement_required
    THEN LET r  == Counter_clock(c)
             ta == (c.ticks_added + 1) % 256
         IN  [ c |-> [r.c EXCEPT !.ticks_added = ta,
                                 !.movement_required = (ta # ticks_to_add(hm_val))],
               moved |-> TRUE, clocked |-> r.clocked,
               overflow |-> (c.ticks_added = 255) ]
    ELSE [ c |-> c, moved |-> FALSE, clocked |-> FALSE, overflow |-> FALSE ]

----------------------------------------------------------------------------
(* memory.rs and bus.rs: the two address decoders.                         *)

A12 == 4096
A9 == 512
A7 == 128

TiaReadAddress_from_address(address) ==
    CASE address = 48 -> Some("CXM0P")
      [] address = 49 -> Some("CXM1P")
      [] address = 50 -> Some("CXP0FB")
      [] address = 51 -> Some("CXP1FB")
      [] address = 52 -> Some("CXM0FB")
      [] address = 53 -> Some("CXM1FB")
      [] address = 54 -> Some("CXBLPF")
      [] address = 55 -> Some("CXPPMM")
      [] address = 56 -> Some("INPT0")
      [] address = 57 -> Some("INPT1")
      [] address = 58 -> Some("INPT2")
      [] address = 59 -> Some("INPT3")
      [] address = 60 -> Some("INPT4")
      [] address = 61 -> Some("INPT5")
      [] OTHER -> None

TiaWriteNames ==
    << "VSYNC", "VBLANK", "WSYNC", "RSYNC", "NUSIZ0", "NUSIZ1", "COLUP0", "COLUP1",
       "COLUPF", "COLUBK", "CTRLPF", "REFP0", "REFP1", "PF0", "PF1", "PF2",
       "RESP0", "RESP1", "RESM0", "RESM1", "RESBL", "AUDC0", "AUDC1", "AUDF0",
       "AUDF1", "AUDV0", "AUDV1", "GRP0", "GRP1", "ENAM0", "ENAM1", "ENABL",
       "HMP0", "HMP1", "HMM0", "HMM1", "HMBL", "VDELP0", "VDELP1", "VDELBL",
       "RESMP0", "RESMP1", "HMOVE", "HMCLR", "CXCLR" >>

TiaWriteAddress_from_address(address) ==
    IF address < Len(TiaWriteNames) THEN Some(TiaWriteNames[address + 1]) ELSE None

PiaAddress_from_address(address) ==
    CASE address \in 0..127 -> Some("RAM")
      [] address = 640 -> Some("SWCHA")
      [] address = 641 -> Some("SWACNT")
      [] address = 642 -> Some("SWCHB")
      [] address = 643 -> Some("SWBCNT")
      [] address = 644 -> Some("INTIM")
      [] address = 645 -> Some("INSTAT")
      [] address = 660 -> Some("TIM1T")
      [] address = 661 -> Some("TIM8T")
      [] address = 662 -> Some("TIM64T")
      [] address = 663 -> Some("T1024T")
      [] OTHER -> None

\* Option::unwrap and the Err returns of memory.rs: a decode result is the
\* category, the register the sub-address names (None where it names none) and
\* how the call ended: "ok", "err" (an Err is returned) or "panic" (unwrap on None).
DecodeResult(kind, reg, failure) ==
    [ kind |-> kind, reg |-> reg, end |-> IF IsSome(reg) THEN "ok" ELSE failure ]

\* memory.rs: MemoryMirrors::from(address, op)
MemoryMirrors_from(address, op) ==
    IF BitAnd(address, A12) # 0
        THEN [ kind |-> "Cartridge", reg |-> Some(BitAnd(address, 4095)), end |-> "ok" ]
    ELSE IF BitAnd(address, BitOr(A12, BitOr(A9, A7))) = BitOr(A9, A7)
        THEN DecodeResult("PiaIO", PiaAddress_from_address(BitAnd(address, 767)), "panic")
    ELSE IF BitAnd(address, A7) = A7
        THEN DecodeResult("PiaRam", PiaAddress_from_address(BitAnd(address, 127)), "panic")
    ELSE IF BitAnd(address, A7) = 0
        THEN IF op = "Read"
             THEN DecodeResult("TiaRead",
                      TiaReadAddress_from_address(BitOr(BitAnd(address, 15), 48)), "err")
             ELSE DecodeResult("TiaWrite",
                      TiaWriteAddress_from_address(BitAnd(address, 63)), "err")
    ELSE [ kind |-> "Invalid", reg |-> None, end |-> "err" ]

\* bus.rs: impl From<u16> for MemoryMirrors
MemoryMirrors_from_u16(address) ==
    IF BitAnd(address, A12) # 0 THEN "Cartridge"
    ELSE IF BitAnd(address, BitOr(A12, BitOr(A9, A7))) = BitOr(A9, A7) THEN "PiaIO"
    ELSE IF BitAnd(address, A7) = A7 THEN "PiaRam"
    ELSE IF BitAnd(address, A7) = 0 THEN "Tia"
    ELSE "unreachable"

----------------------------------------------------------------------------
(* riot.rs                                                                 *)

\* usize::MAX, the value 0usize - 1 wraps to in a build without overflow checks.
\* It stands as the largest integer TLC has; every run is far shorter.
USIZE_MAX == 2147483647

\* A byte array that starts zeroed, held as the map of the cells written so far.
EmptyMem == [j \in {} |-> 0]
ByteAt(mem, i) == IF i \in DOMAIN mem THEN mem[i] ELSE 0
ByteSet(mem, i, v) == [j \in DOMAIN mem \cup {i} |-> IF j = i THEN v ELSE mem[j]]

RIOT_default ==
    [ ram |-> EmptyMem, swcha |-> 0, swacnt |-> 0, swchb |-> 0, swbcnt |-> 0,
      intim |-> 0, instat |-> 0, port_a |-> 0, port_b |-> 200,
      resolution |-> 0, cycle_count |-> 0 ]

\* up(pressed), the player 0 joystick's line on port A
RIOT_up(r, pressed) ==
    [r EXCEPT !.port_a = IF pressed THEN BitAnd(@, 239) ELSE BitOr(@, 16)]

\* the mutant of decrement() that keeps the programmed interval after an underflow
RIOT_decrement_keeps_interval(r) ==
    [r EXCEPT !.intim = (r.intim + 255) % 256,
              !.instat = IF r.intim = 0 THEN 192 ELSE r.instat,
              !.cycle_count = r.resolution]

RIOT_decrement(r) ==
    LET underflowed == (r.intim = 0)
        res == IF underflowed THEN 1 ELSE r.resolution
    IN  [r EXCEPT !.intim = (r.intim + 255) % 256,
                  !.instat = IF underflowed THEN 192 ELSE r.instat,
                  !.resolution = res, !.cycle_count = res]

\* clock(): the chip after the call and whether cycle_count -= 1 overflowed
\* (a panic in a build with overflow checks, a wrap to usize::MAX without).
RIOT_clock(r) ==
    LET cc == IF r.cycle_count = 0 THEN USIZE_MAX ELSE r.cycle_count - 1
        r1 == [r EXCEPT !.cycle_count = cc]
    IN  [ r |-> IF cc = 0 THEN RIOT_decrement(r1) ELSE r1,
          overflow |-> (r.cycle_count = 0) ]

\* the mutant of init_timer() that clears the status register, as the 6532 does
RIOT_init_timer_clears_status(r, val, resolution) ==
    RIOT_decrement([r EXCEPT !.intim = val, !.resolution = resolution, !.instat = 0])

\* the mutant of init_timer() that loads the value without the decrement
RIOT_init_timer_no_decrement(r, val, resolution) ==
    [r EXCEPT !.intim = val, !.resolution = resolution, !.cycle_count = resolution]

RIOT_init_timer(r, val, resolution) ==
    RIOT_decrement([r EXCEPT !.intim = val, !.resolution = resolution])

\* the mutant of the INSTAT read that leaves the status register as it is
INSTAT_after_read_kept(instat) == instat

\* INSTAT read: self.instat &= 0b1011_1111
INSTAT_after_read(instat) == BitAnd(instat, 191)

\* <RIOT as Bus>::read: the chip after the call, the byte returned, and whether
\* PiaAddress::from_address(address).unwrap() panicked.
RIOT_read(r, address) ==
    LET pia == PiaAddress_from_address(address)
    IN  IF pia = None THEN [ r |-> r, val |-> 0, panic |-> TRUE ]
        ELSE CASE pia[1] = "RAM" ->
                    [ r |-> r, val |-> ByteAt(r.ram, address), panic |-> FALSE ]
               [] pia[1] = "SWCHA" ->
                    [ r |-> r, panic |-> FALSE,
                      val |-> BitOr(BitAnd(r.swcha, r.swacnt),
                                    BitAnd(r.port_a, BitXor(r.swacnt, 255))) ]
               [] pia[1] = "SWCHB" ->
                    [ r |-> r, panic |-> FALSE,
                      val |-> BitOr(BitAnd(r.swchb, r.swbcnt),
                                    BitAnd(r.port_b, BitXor(r.swbcnt, 255))) ]
               [] pia[1] = "INTIM" -> [ r |-> r, val |-> r.intim, panic |-> FALSE ]
               [] pia[1] = "INSTAT" ->
                    [ r |-> [r EXCEPT !.instat = INSTAT_after_read(r.instat)],
                      val |-> r.instat, panic |-> FALSE ]
               [] OTHER -> [ r |-> r, val |-> 0, panic |-> FALSE ]

\* <RIOT as Bus>::write: the chip after the call and whether unwrap() panicked.
RIOT_write(r, address, val) ==
    LET pia == PiaAddress_from_address(address)
    IN  IF pia = None THEN [ r |-> r, panic |-> TRUE ]
        ELSE [ panic |-> FALSE,
               r |-> CASE pia[1] = "RAM" -> [r EXCEPT !.ram = ByteSet(r.ram, address, val)]
                       [] pia[1] = "SWACNT" -> [r EXCEPT !.swacnt = val]
                       [] pia[1] = "SWBCNT" -> [r EXCEPT !.swbcnt = val]
                       [] pia[1] = "TIM1T" -> RIOT_init_timer(r, val, 1)
                       [] pia[1] = "TIM8T" -> RIOT_init_timer(r, val, 8)
                       [] pia[1] = "TIM64T" -> RIOT_init_timer(r, val, 64)
                       [] pia[1] = "T1024T" -> RIOT_init_timer(r, val, 1024)
                       [] OTHER -> r ]

----------------------------------------------------------------------------
(* cpu6507.rs: the register file and ADC.                                  *)

CPU6507_new ==
    [ a |-> 0, x |-> 0, y |-> 0,
      c |-> FALSE, z |-> FALSE, i |-> FALSE, d |-> FALSE,
      b |-> FALSE, u |-> FALSE, v |-> FALSE, s |-> FALSE,
      pc |-> 0, sp |-> 255,
      cycles |-> 0,
      current_instruction |-> None, current_addr |-> 0,
      current_addr_mode |-> "Accumulator", current_cycles |-> 0 ]

B2N(b) == IF b THEN 1 ELSE 0

\* update_sz(val)
update_sz(p, val) == [p EXCEPT !.s = (BitAnd(val, 128) # 0), !.z = (val = 0)]

\* the mutant of the binary carry: n >= 0xff for n > 0xff
adc_binary_carry_off_by_one(n) == n >= 255

\* adc, binary branch: self.c = n > 0xff
adc_binary_carry(n) == n > 255

\* the mutant of the decimal correction that skips the high-nybble adjustment
adc_decimal_hi_unadjusted(hi) == hi

\* adc, decimal branch: if hi > 0x90 { hi += 0x60 }
adc_decimal_hi(hi) == IF hi > 144 THEN hi + 96 ELSE hi

\* adc(addr), with val the byte self.read(addr) returned
CPU6507_adc(p, val) ==
    IF p.d
    THEN LET lo0 == BitAnd(p.a, 15) + BitAnd(val, 15) + B2N(p.c)
             hi0 == BitAnd(p.a, 240) + BitAnd(val, 240)
             lo  == IF lo0 > 9 THEN lo0 + 6 ELSE lo0
             hi1 == IF lo0 > 9 THEN hi0 + 16 ELSE hi0
             hi  == adc_decimal_hi(hi1)
         IN  [p EXCEPT !.s = (BitAnd(hi1, 128) # 0),
                       !.z = (BitAnd(lo + hi1, 255) # 0),
                       !.v = (BitAnd(BitXor(p.a, val), 128) = 0)
                             /\ (BitAnd(BitXor(p.a, hi1 % 256), 128) # 0),
                       !.c = (BitAnd(hi, 65280) # 0),
                       !.a = BitOr(BitAnd(lo, 15), BitAnd(hi, 240))]
    ELSE LET n == p.a + val + B2N(p.c)
             a == BitAnd(n, 255)
         IN  [update_sz(p, a) EXCEPT
                       !.c = adc_binary_carry(n),
                       !.v = (BitAnd(BitXor(p.a, val), 128) = 0)
                             /\ (BitAnd(BitXor(p.a, a), 128) # 0),
                       !.a = a]

----------------------------------------------------------------------------
(* tia/graphics.rs, tia/player.rs, tia/missile.rs, tia/ball.rs: the five    *)
(* objects.  One record shape serves the three types; kind tells which     *)
(* implementation of size(), pixel_bit() and should_draw_copy() applies.   *)

PLAYER_INIT_DELAY == 5
PLAYER_GRAPHIC_SIZE == 8
MISSILE_INIT_DELAY == 4
MISSILE_GRAPHIC_SIZE == 1
BALL_INIT_DELAY == 4
BALL_GRAPHIC_SIZE == 1

ScanCounter_default == [ bit_idx |-> None, bit_copies_written |-> 0, bit_value |-> None ]

\* Player::new, Missile::new, Ball::new
Object_new(kind) ==
    [ kind |-> kind,
      init_delay |-> IF kind \in {"P0", "P1"} THEN PLAYER_INIT_DELAY
                     ELSE IF kind = "BL" THEN BALL_INIT_DELAY ELSE MISSILE_INIT_DELAY,
      graphic_size |-> IF kind \in {"P0", "P1"} THEN PLAYER_GRAPHIC_SIZE
                       ELSE IF kind = "BL" THEN BALL_GRAPHIC_SIZE ELSE MISSILE_GRAPHIC_SIZE,
      hmove_offset |-> 0,
      ctr |-> Counter_new(40, 39),
      scan_counter |-> ScanCounter_default,
      nusiz |-> IF kind = "BL" THEN 1 ELSE 0,
      size |-> 0, copies |-> 0,
      enabled |-> FALSE,
      horizontal_mirror |-> FALSE, graphic |-> 0,
      vdel |-> FALSE, old_value |-> 0 ]

\* Player::size, Missile::size, Ball::size
Object_size(o) ==
    CASE o.kind \in {"P0", "P1"} ->
            (IF BitAnd(o.nusiz, 15) = 5 THEN 2 ELSE IF BitAnd(o.nusiz, 15) = 7 THEN 4 ELSE 1)
      [] o.kind \in {"M0", "M1"} -> o.size
      [] OTHER -> o.nusiz

\* Player::pixel_bit, Missile::pixel_bit, Ball::pixel_bit (Ball keeps old_value as
\* a bool: 1 for true)
Object_pixel_bit(o) ==
    CASE o.kind \in {"P0", "P1"} ->
            IF IsSome(o.scan_counter.bit_idx)
            THEN LET x == o.scan_counter.bit_idx[1]
                     graphic == IF o.vdel THEN o.old_value ELSE o.graphic
                 IN  IF o.horizontal_mirror
                     THEN BitAnd(graphic, 2 ^ x) # 0
                     ELSE BitAnd(graphic, 2 ^ (7 - x)) # 0
            ELSE FALSE
      [] o.kind \in {"M0", "M1"} -> o.enabled
      [] OTHER -> IF o.vdel THEN o.old_value = 1 ELSE o.enabled

Object_tick_graphic_circuit(o) ==
    LET sc == o.scan_counter
    IN  IF IsSome(sc.bit_idx)
        THEN LET idx == sc.bit_idx[1]
             IN  IF idx \in 0..7
                 THEN LET written == sc.bit_copies_written + 1
                          full == (written = Object_size(o))
                          idx1 == IF full THEN idx + 1 ELSE idx
                      IN  [o EXCEPT !.scan_counter =
                             [ bit_value |-> Some(Object_pixel_bit(o)),
                               bit_copies_written |-> IF full THEN 0 ELSE written,
                               bit_idx |-> IF idx1 = o.graphic_size THEN None ELSE Some(idx1) ]]
                 ELSE [o EXCEPT !.scan_counter.bit_idx = Some(idx + 1)]
        ELSE [o EXCEPT !.scan_counter.bit_value = None]

Object_should_draw_graphic(o) == Counter_value(o.ctr) = 39

\* the mutant of should_draw_copy() in which the field 111 draws a copy at 15
Object_should_draw_copy_quad(o) ==
    LET count == Counter_value(o.ctr)
        n == IF o.kind \in {"P0", "P1"} THEN o.nusiz ELSE o.copies
    IN  /\ o.kind # "BL"
        /\ \/ (count = 3 /\ n \in {1, 3})
           \/ (count = 7 /\ n \in {2, 3, 6})
           \/ (count = 15 /\ n \in {4, 6, 7})

\* Player::should_draw_copy tests nusiz, Missile::should_draw_copy tests copies,
\* Ball::should_draw_copy is false.
Object_should_draw_copy(o) ==
    LET count == Counter_value(o.ctr)
        n == IF o.kind \in {"P0", "P1"} THEN o.nusiz ELSE o.copies
    IN  /\ o.kind # "BL"
        /\ \/ (count = 3 /\ n \in {1, 3})
           \/ (count = 7 /\ n \in {2, 3, 6})
           \/ (count = 15 /\ n \in {4, 6})

\* the mutant of reset_scan_counter() whose delay is one tick short
Object_reset_scan_counter_short(o) ==
    [o EXCEPT !.scan_counter.bit_idx = Some(1 - o.init_delay),
              !.scan_counter.bit_copies_written = 0]

Object_reset_scan_counter(o) ==
    [o EXCEPT !.scan_counter.bit_idx = Some(0 - o.init_delay),
              !.scan_counter.bit_copies_written = 0]

Object_restart_if_due(o) ==
    IF Object_should_draw_graphic(o) \/ Object_should_draw_copy(o)
    THEN Object_reset_scan_counter(o) ELSE o

Object_reset(o) == Object_restart_if_due([o EXCEPT !.ctr = Counter_reset(o.ctr)])

Object_start_hmove(o) ==
    Object_tick_graphic_circuit([o EXCEPT !.ctr = Counter_start_hmove(o.ctr, o.hmove_offset)])

Object_clock(o) ==
    The({ The({ IF r.clocked THEN Object_restart_if_due([o1 EXCEPT !.ctr = r.c])
                ELSE [o1 EXCEPT !.ctr = r.c]
                : r \in {Counter_clock(o1.ctr)} })
          : o1 \in {Object_tick_graphic_circuit(o)} })

\* apply_hmove(): the object after the call and whether the counter's
\* ticks_added overflowed.
Object_apply_hmove(o) ==
    The({ The({ [ o |-> IF r.moved THEN Object_tick_graphic_circuit(o2) ELSE o2,
                  overflow |-> r.overflow ]
                : o2 \in { IF r.clocked THEN Object_restart_if_due([o EXCEPT !.ctr = r.c])
                           ELSE [o EXCEPT !.ctr = r.c] } })
          : r \in {Counter_apply_hmove(o.ctr, o.hmove_offset)} })

\* Player::get_color, Missile::get_color, Ball::get_color
Object_get_color(o, colors) ==
    IF o.scan_counter.bit_value = Some(TRUE)
    THEN Some(CASE o.kind \in {"P0", "M0"} -> colors.colup0
                [] o.kind \in {"P1", "M1"} -> colors.colup1
                [] OTHER -> colors.colupf)
    ELSE None

----------------------------------------------------------------------------
(* tia/playfield.rs                                                        *)

PF_LENGTH == 20

reverse_bit_order(value) ==
    LET RECURSIVE rev(_, _, _)
        rev(v, result, n) ==
            IF n = 0 THEN result ELSE rev(v \div 2, ((result * 2) % 256) + (v % 2), n - 1)
    IN  rev(value, 0, 8)

Playfield_new ==
    [ ctr |-> Counter_new(40, 39), pf0 |-> 0, pf1 |-> 0, pf2 |-> 0,
      horizontal_mirror |-> FALSE, score_mode |-> FALSE, priority |-> FALSE,
      graphic_bit_value |-> None ]

\* the mutant of set_pf2() that stores the byte as written
Playfield_set_pf2_as_written(pf, val) == [pf EXCEPT !.pf2 = val]

Playfield_set_pf0(pf, val) == [pf EXCEPT !.pf0 = BitAnd(reverse_bit_order(val), 15)]
Playfield_set_pf1(pf, val) == [pf EXCEPT !.pf1 = val]
Playfield_set_pf2(pf, val) == [pf EXCEPT !.pf2 = reverse_bit_order(val)]

\* the mutant of set_control() that never mirrors the right half
Playfield_set_control_no_mirror(pf, val) ==
    [pf EXCEPT !.horizontal_mirror = FALSE,
               !.priority = (BitAnd(val, 4) # 0),
               !.score_mode = (BitAnd(val, 2) # 0) /\ ~(BitAnd(val, 4) # 0)]

Playfield_set_control(pf, val) ==
    [pf EXCEPT !.horizontal_mirror = (BitAnd(val, 1) # 0),
               !.priority = (BitAnd(val, 4) # 0),
               !.score_mode = (BitAnd(val, 2) # 0) /\ ~(BitAnd(val, 4) # 0)]

\* the mutant of bits() that numbers the 20 bits from the least significant end
PlayfieldData_bit_lsb_first(pf, i) ==
    LET val == pf.pf0 * 65536 + pf.pf1 * 256 + pf.pf2
    IN  (val \div (2 ^ i)) % 2 = 1

\* PlayfieldData::bits()[i]
PlayfieldData_bit(pf, i) ==
    LET val == pf.pf0 * 65536 + pf.pf1 * 256 + pf.pf2
    IN  (val \div (2 ^ (19 - i))) % 2 = 1

Playfield_tick_graphic_circuit(pf, colors) ==
    LET ctr  == Counter_value(pf.ctr)
        pf_x == ctr % 20
    IN  IF ctr < 20
        THEN [pf EXCEPT !.graphic_bit_value =
                 IF PlayfieldData_bit(pf, pf_x)
                 THEN Some(IF pf.score_mode THEN colors.colup0 ELSE colors.colupf)
                 ELSE None]
        ELSE LET idx == IF pf.horizontal_mirror THEN PF_LENGTH - 1 - pf_x ELSE pf_x
             IN  [pf EXCEPT !.graphic_bit_value =
                     IF PlayfieldData_bit(pf, idx)
                     THEN Some(IF pf.score_mode THEN colors.colup1 ELSE colors.colupf)
                     ELSE None]

Playfield_clock(pf, colors) ==
    The({ [p1 EXCEPT !.ctr = Counter_clock(p1.ctr).c]
          : p1 \in {Playfield_tick_graphic_circuit(pf, colors)} })

----------------------------------------------------------------------------
(* tia/mod.rs                                                              *)

RHB == 16
LRHB == 18
SHB == 56

\* tia/color.rs is not among the sources: Colors is the block of the four colour
\* registers, zero at power-on, that mod.rs sets and the objects read.
Colors_new == [ colup0 |-> 0, colup1 |-> 0, colupf |-> 0, colubk |-> 0 ]

\* tia/palette.rs is not among the sources: a pixel is held as the colour value
\* that indexes NTSC_PALETTE, and DEFAULT_COLOR is the value forced in the late
\* horizontal blank.
DEFAULT_COLOR == 0

\* Rgba([0, 0, 0, 0]), what the pixel buffer is created with: no palette entry.
BlankPixel == 0 - 1

TIA_default ==
    [ ctr |-> Counter_new(57, 0),
      vsync |-> FALSE, vblank |-> 0, late_reset_hblank |-> FALSE, wsync |-> FALSE,
      inpt4_port |-> FALSE, inpt4_latch |-> TRUE,
      cxm0p |-> 0, cxm1p |-> 0, cxp0fb |-> 0, cxp1fb |-> 0,
      cxm0fb |-> 0, cxm1fb |-> 0, cxblpf |-> 0, cxppmm |-> 0,
      colors |-> Colors_new,
      pf |-> Playfield_new,
      p0 |-> Object_new("P0"), p1 |-> Object_new("P1"),
      m0 |-> Object_new("M0"), m1 |-> Object_new("M1"), bl |-> Object_new("BL"),
      pixels |-> [x \in 0..159 |-> BlankPixel] ]

TIA_joystick_fire(t, pressed) ==
    [t EXCEPT !.inpt4_port = ~pressed,
              !.inpt4_latch = IF pressed THEN FALSE ELSE t.inpt4_latch]

\* the mutant of the chain that lets a later report override an earlier one
FirstSome_last(opts, default) ==
    IF \E i \in DOMAIN opts : IsSome(opts[i])
    THEN opts[CHOOSE i \in DOMAIN opts :
                 IsSome(opts[i]) /\ \A j \in DOMAIN opts : j > i => ~IsSome(opts[j])][1]
    ELSE default

\* Option::or over a tuple of Options, then unwrap_or
FirstSome(opts, default) ==
    IF \E i \in DOMAIN opts : IsSome(opts[i])
    THEN opts[CHOOSE i \in DOMAIN opts :
                 IsSome(opts[i]) /\ \A j \in 1..(i - 1) : ~IsSome(opts[j])][1]
    ELSE default

TIA_get_pixel_color(t) ==
    LET c  == t.colors
        P0 == Object_get_color(t.p0, c)
        M0 == Object_get_color(t.m0, c)
        P1 == Object_get_color(t.p1, c)
        M1 == Object_get_color(t.m1, c)
        BL == Object_get_color(t.bl, c)
        PF == t.pf.graphic_bit_value
    IN  The({ FirstSome(order, c.colubk)
              : order \in { IF ~t.pf.priority THEN <<P0, M0, P1, M1, BL, PF>>
                            ELSE <<PF, BL, P0, M0, P1, M1>> } })

\* the mutant of the latch update that holds this clock's overlap only
Latch_unlatched(reg, bit, hit) == IF hit THEN bit ELSE 0

\* if hit { self.reg |= bit }
Latch(reg, bit, hit) == IF hit THEN BitOr(reg, bit) ELSE reg

TIA_update_collisions(t) ==
    LET c  == t.colors
        P0 == IsSome(Object_get_color(t.p0, c))
        M0 == IsSome(Object_get_color(t.m0, c))
        P1 == IsSome(Object_get_color(t.p1, c))
        M1 == IsSome(Object_get_color(t.m1, c))
        BL == IsSome(Object_get_color(t.bl, c))
        PF == IsSome(t.pf.graphic_bit_value)
    IN  [t EXCEPT
           !.cxm0p  = Latch(Latch(t.cxm0p, 64, M0 /\ P0), 128, M0 /\ P1),
           !.cxm1p  = Latch(Latch(t.cxm1p, 64, M1 /\ P0), 128, M1 /\ P1),
           !.cxp0fb = Latch(Latch(t.cxp0fb, 64, P0 /\ BL), 128, P0 /\ PF),
           !.cxp1fb = Latch(Latch(t.cxp1fb, 64, P1 /\ BL), 128, P1 /\ PF),
           !.cxm0fb = Latch(Latch(Latch(Latch(t.cxm0fb, 64, M0 /\ BL), 128, M0 /\ PF),
                                  64, M1 /\ BL), 128, M1 /\ PF),
           !.cxblpf = Latch(t.cxblpf, 128, BL /\ PF),
           !.cxppmm = Latch(Latch(t.cxppmm, 64, M0 /\ M1), 128, P0 /\ P1)]

\* the mutant of visible_cycle() that takes the last blank value for visible
TIA_visible_cycle_from_rhb(t) == Counter_value(t.ctr) >= RHB /\ Counter_value(t.ctr) <= SHB

TIA_visible_cycle(t) == Counter_value(t.ctr) > RHB /\ Counter_value(t.ctr) <= SHB

\* the mutant of in_late_reset() whose extension ends with the value LRHB - 1
TIA_in_late_reset_short(t) ==
    t.late_reset_hblank /\ Counter_value(t.ctr) > RHB /\ Counter_value(t.ctr) < LRHB

TIA_in_late_reset(t) ==
    t.late_reset_hblank /\ Counter_value(t.ctr) > RHB /\ Counter_value(t.ctr) <= LRHB

\* apply_hmove_all(): the chip after the call and whether any counter overflowed
TIA_apply_hmove_all(t) ==
    The({ [ t |-> [t EXCEPT !.p0 = m[1].o, !.p1 = m[2].o, !.m0 = m[3].o,
                            !.m1 = m[4].o, !.bl = m[5].o],
            overflow |-> \E i \in 1..5 : m[i].overflow ]
          : m \in { << Object_apply_hmove(t.p0), Object_apply_hmove(t.p1),
                       Object_apply_hmove(t.m0), Object_apply_hmove(t.m1),
                       Object_apply_hmove(t.bl) >> } })

TIA_clock_visible_components(t) ==
    [t EXCEPT !.p0 = Object_clock(t.p0), !.p1 = Object_clock(t.p1),
              !.m0 = Object_clock(t.m0), !.m1 = Object_clock(t.m1),
              !.bl = Object_clock(t.bl)]

\* the mutant of clock()'s last match in which no value is the start of a line
TIA_new_scanline_never(clocked, value) == FALSE

\* clock(): if clocked { match self.ctr.value() { 0 => ... } }
TIA_new_scanline(clocked, value) == clocked /\ value = 0

\* clock(): the chip after the call and whether a u8 overflowed on the way
TIA_clock(t) ==
    LET \* the visible cycle: playfield, collisions, then HMOVE clocks or the
        \* objects' clocks, then the pixel
        Visible(t1) ==
            The({ The({ IF TIA_in_late_reset(a)
                        THEN The({ [ t |-> [h.t EXCEPT
                                              !.pixels[a.ctr.internal_value - 68] = DEFAULT_COLOR],
                                     overflow |-> h.overflow ]
                                   : h \in {TIA_apply_hmove_all(a)} })
                        ELSE The({ [ t |-> [b EXCEPT
                                              !.pixels[a.ctr.internal_value - 68] =
                                                  TIA_get_pixel_color(b)],
                                     overflow |-> FALSE ]
                                   : b \in {TIA_clock_visible_components(a)} })
                        : a \in {TIA_update_collisions([t1 EXCEPT !.pf = pf1])} })
                  : pf1 \in {Playfield_clock(t1.pf, t1.colors)} })
        \* the end of clock(): a line that has just begun releases WSYNC
        Finish(clocked, t2) ==
            [ t |-> IF TIA_new_scanline(clocked, Counter_value(t2.t.ctr))
                    THEN [t2.t EXCEPT !.wsync = FALSE, !.late_reset_hblank = FALSE]
                    ELSE t2.t,
              overflow |-> t2.overflow ]
    IN  The({ The({ The({ Finish(r.clocked, t2)
                          : t2 \in { IF TIA_visible_cycle(t1) THEN Visible(t1)
                                     ELSE TIA_apply_hmove_all(t1) } })
                    : t1 \in {[t EXCEPT !.ctr = r.c]} })
              : r \in {Counter_clock(t.ctr)} })

\* <TIA as Bus>::read
TIA_read(t, address) ==
    CASE address = 48 -> t.cxm0p
      [] address = 49 -> t.cxm1p
      [] address = 50 -> t.cxp0fb
      [] address = 51 -> t.cxp1fb
      [] address = 52 -> t.cxm0fb
      [] address = 53 -> t.cxm1fb
      [] address = 54 -> t.cxblpf
      [] address = 55 -> t.cxppmm
      [] address = 60 ->
            LET level == IF BitAnd(t.vblank, 64) # 0
                         THEN t.inpt4_port /\ t.inpt4_latch ELSE t.inpt4_port
            IN  IF level THEN 128 ELSE 0
      [] OTHER -> 0

\* the mutant of the CXCLR strobe that leaves CXBLPF standing
TIA_cxclr_partial(t) ==
    [t EXCEPT !.cxm0p = 0, !.cxm1p = 0, !.cxp0fb = 0, !.cxp1fb = 0,
              !.cxm0fb = 0, !.cxm1fb = 0, !.cxppmm = 0]

\* write, 0x002C: CXCLR
TIA_cxclr(t) ==
    [t EXCEPT !.cxm0p = 0, !.cxm1p = 0, !.cxp0fb = 0, !.cxp1fb = 0,
              !.cxm0fb = 0, !.cxm1fb = 0, !.cxblpf = 0, !.cxppmm = 0]

\* <TIA as Bus>::write
TIA_write(t, address, val) ==
    CASE address = 0 -> [t EXCEPT !.vsync = (BitAnd(val, 2) # 0)]
      [] address = 1 -> [t EXCEPT !.vblank = val,
                                  !.inpt4_latch = IF BitAnd(val, 128) # 0 THEN TRUE
                                                  ELSE t.inpt4_latch]
      [] address = 2 -> [t EXCEPT !.wsync = TRUE]
      [] address = 3 -> [t EXCEPT !.ctr = Counter_reset_to_h1(t.ctr)]
      [] address = 6 -> [t EXCEPT !.colors.colup0 = BitAnd(val, 254)]
      [] address = 7 -> [t EXCEPT !.colors.colup1 = BitAnd(val, 254)]
      [] address = 8 -> [t EXCEPT !.colors.colupf = BitAnd(val, 254)]
      [] address = 9 -> [t EXCEPT !.colors.colubk = BitAnd(val, 254)]
      [] address = 10 -> [t EXCEPT !.pf = Playfield_set_control(t.pf, val),
                                   !.bl.nusiz = 2 ^ (BitAnd(val, 48) \div 16)]
      [] address = 13 -> [t EXCEPT !.pf = Playfield_set_pf0(t.pf, val)]
      [] address = 14 -> [t EXCEPT !.pf = Playfield_set_pf1(t.pf, val)]
      [] address = 15 -> [t EXCEPT !.pf = Playfield_set_pf2(t.pf, val)]
      [] address = 4 -> [t EXCEPT !.m0.nusiz = val,
                                  !.m0.size = 2 ^ (BitAnd(val, 48) \div 16),
                                  !.m0.copies = BitAnd(val, 7),
                                  !.p0.nusiz = BitAnd(BitAnd(val, 7), 15)]
      [] address = 5 -> [t EXCEPT !.m1.nusiz = val,
                                  !.m1.size = 2 ^ (BitAnd(val, 48) \div 16),
                                  !.m1.copies = BitAnd(val, 7),
                                  !.p1.nusiz = BitAnd(BitAnd(val, 7), 15)]
      [] address = 11 -> [t EXCEPT !.p0.horizontal_mirror = (BitAnd(val, 8) # 0)]
      [] address = 12 -> [t EXCEPT !.p1.horizontal_mirror = (BitAnd(val, 8) # 0)]
      [] address = 16 -> [t EXCEPT !.p0 = Object_reset(t.p0)]
      [] address = 17 -> [t EXCEPT !.p1 = Object_reset(t.p1)]
      [] address = 18 -> [t EXCEPT !.m0 = Object_reset(t.m0)]
      [] address = 19 -> [t EXCEPT !.m1 = Object_reset(t.m1)]
      [] address = 20 -> [t EXCEPT !.bl = Object_reset(t.bl)]
      [] address = 27 -> [t EXCEPT !.p0.graphic = val, !.p1.old_value = t.p1.graphic]
      [] address = 28 -> [t EXCEPT !.p1.graphic = val, !.p0.old_value = t.p0.graphic,
                                   !.bl.old_value = B2N(t.bl.enabled)]
      [] address = 29 -> [t EXCEPT !.m0.enabled = (BitAnd(val, 2) # 0)]
      [] address = 30 -> [t EXCEPT !.m1.enabled = (BitAnd(val, 2) # 0)]
      [] address = 31 -> [t EXCEPT !.bl.enabled = (BitAnd(val, 2) # 0)]
      [] address = 32 -> [t EXCEPT !.p0.hmove_offset = val]
      [] address = 33 -> [t EXCEPT !.p1.hmove_offset = val]
      [] address = 34 -> [t EXCEPT !.m0.hmove_offset = val]
      [] address = 35 -> [t EXCEPT !.m1.hmove_offset = val]
      [] address = 36 -> [t EXCEPT !.bl.hmove_offset = val]
      [] address = 37 -> [t EXCEPT !.p0.vdel = (BitAnd(val, 1) # 0)]
      [] address = 38 -> [t EXCEPT !.p1.vdel = (BitAnd(val, 1) # 0)]
      [] address = 39 -> [t EXCEPT !.bl.vdel = (BitAnd(val, 1) # 0)]
      [] address = 40 -> IF BitAnd(val, 2) # 0
                         THEN [t EXCEPT !.m0.ctr =
                                  Counter_reset_to(t.m0.ctr, t.p0.ctr.internal_value)]
                         ELSE t
      [] address = 41 -> IF BitAnd(val, 2) # 0
                         THEN [t EXCEPT !.m1.ctr =
                                  Counter_reset_to(t.m1.ctr, t.p1.ctr.internal_value)]
                         ELSE t
      [] address = 42 -> [t EXCEPT !.bl = Object_start_hmove(t.bl),
                                   !.m0 = Object_start_hmove(t.m0),
                                   !.m1 = Object_start_hmove(t.m1),
                                   !.p0 = Object_start_hmove(t.p0),
                                   !.p1 = Object_start_hmove(t.p1),
                                   !.late_reset_hblank = TRUE]
      [] address = 43 -> [t EXCEPT !.bl.hmove_offset = 0, !.m0.hmove_offset = 0,
                                   !.m1.hmove_offset = 0, !.p0.hmove_offset = 0,
                                   !.p1.hmove_offset = 0]
      [] address = 44 -> TIA_cxclr(t)
      [] OTHER -> t

----------------------------------------------------------------------------
(* bus.rs: AtariBus, over the cartridge image, the RIOT and the TIA.       *)

\* The cartridge image that was loaded: 4096 bytes, here a fixed pattern.
RomImage(offset) == (offset * 37 + 11) % 256

RomByte(image, offset) == IF offset \in DOMAIN image THEN image[offset] ELSE RomImage(offset)

\* AtariBus::read: the byte returned, the chips after the call, and whether the
\* call panicked.
AtariBus_read(image, r, t, address) ==
    LET m == MemoryMirrors_from_u16(address)
    IN  CASE m = "Cartridge" ->
                [ val |-> RomByte(image, BitAnd(address, 4095)), riot |-> r, panic |-> FALSE ]
          [] m = "PiaIO" ->
                LET got == RIOT_read(r, BitAnd(address, 767))
                IN  [ val |-> got.val, riot |-> got.r, panic |-> got.panic ]
          [] m = "PiaRam" ->
                LET got == RIOT_read(r, BitAnd(address, 127))
                IN  [ val |-> got.val, riot |-> got.r, panic |-> got.panic ]
          [] OTHER ->
                [ val |-> TIA_read(t, BitOr(BitAnd(address, 15), 48)), riot |-> r,
                  panic |-> FALSE ]

\* AtariBus::write: the image and the chips after the call, and whether the call
\* panicked.
AtariBus_write(image, r, t, address, val) ==
    LET m == MemoryMirrors_from_u16(address)
    IN  CASE m = "Cartridge" ->
                [ rom |-> ByteSet(image, BitAnd(address, 4095), val),
                  riot |-> r, tia |-> t, panic |-> FALSE ]
          [] m = "PiaIO" ->
                LET got == RIOT_write(r, BitAnd(address, 767), val)
                IN  [ rom |-> image, riot |-> got.r, tia |-> t, panic |-> got.panic ]
          [] m = "PiaRam" ->
                LET got == RIOT_write(r, BitAnd(address, 127), val)
                IN  [ rom |-> image, riot |-> got.r, tia |-> t, panic |-> got.panic ]
          [] OTHER ->
                [ rom |-> image, riot |-> r, tia |-> TIA_write(t, BitAnd(address, 63), val),
                  panic |-> FALSE ]

----------------------------------------------------------------------------
(* cpu6507.rs, opcode.rs: the processor on its bus.  A machine m is the    *)
(* processor with what its Box<dyn Bus> reaches: the cartridge image and   *)
(* the two chips.  m.panic tells that the process has ended (a panic or    *)
(* process::exit), m.accesses counts the calls made on the bus.            *)

\* u64::MAX, what 0u64 - 1 wraps to in a build without overflow checks; it
\* stands as the largest integer TLC has, as USIZE_MAX does.
U64_MAX == 2147483647

Machine(p, image, r, t) ==
    [ cpu |-> p, rom |-> image, riot |-> r, tia |-> t, panic |-> FALSE, accesses |-> 0 ]

\* impl Bus for CPU6507, read: self.bus.read(addr & 0x1fff)
CPU6507_read(m, addr) ==
    The({ [ m |-> [m EXCEPT !.riot = got.riot, !.panic = @ \/ got.panic,
                            !.accesses = @ + 1],
            val |-> got.val ] :
          got \in {AtariBus_read(m.rom, m.riot, m.tia, addr % 8192)} })

\* impl Bus for CPU6507, write: self.bus.write(addr & 0x1fff, val)
CPU6507_write(m, addr, val) ==
    The({ [m EXCEPT !.rom = w.rom, !.riot = w.riot, !.tia = w.tia,
                    !.panic = @ \/ w.panic, !.accesses = @ + 1] :
          w \in {AtariBus_write(m.rom, m.riot, m.tia, addr % 8192, val)} })

pages_differ(addr_a, addr_b) == addr_a \div 256 # addr_b \div 256

\* AddressingMode::n_bytes; 0 stands for its panic on AddressingMode::None
n_bytes(mode) ==
    CASE mode \in {"Implied", "Accumulator"} -> 1
      [] mode \in {"Immediate", "ZeroPageIndexed", "Relative"} -> 2
      [] mode \in {"Absolute", "AbsoluteX"} -> 3
      [] OTHER -> 0

\* OPCODES[opcode]: the rows the programs of this development fetch.  Eleven
\* rows of the table, 0x4b among them, are (None, None, 0, 0); that row stands
\* here for every row not listed.
OPCODES(opcode) ==
    CASE opcode = 2   -> [ inst |-> "JAM", mode |-> "Implied", cycles |-> 0, extra |-> 0 ]
      [] opcode = 76  -> [ inst |-> "JMP", mode |-> "Absolute", cycles |-> 3, extra |-> 0 ]
      [] opcode = 133 -> [ inst |-> "STA", mode |-> "ZeroPageIndexed", cycles |-> 3, extra |-> 0 ]
      [] opcode = 141 -> [ inst |-> "STA", mode |-> "Absolute", cycles |-> 4, extra |-> 0 ]
      [] opcode = 157 -> [ inst |-> "STA", mode |-> "AbsoluteX", cycles |-> 5, extra |-> 0 ]
      [] opcode = 162 -> [ inst |-> "LDX", mode |-> "Immediate", cycles |-> 2, extra |-> 0 ]
      [] opcode = 169 -> [ inst |-> "LDA", mode |-> "Immediate", cycles |-> 2, extra |-> 0 ]
      [] opcode = 189 -> [ inst |-> "LDA", mode |-> "AbsoluteX", cycles |-> 4, extra |-> 1 ]
      [] opcode = 202 -> [ inst |-> "DEX", mode |-> "Implied", cycles |-> 2, extra |-> 0 ]
      [] opcode = 208 -> [ inst |-> "BNE", mode |-> "Relative", cycles |-> 2, extra |-> 1 ]
      [] opcode = 234 -> [ inst |-> "NOP", mode |-> "Implied", cycles |-> 2, extra |-> 0 ]
      [] opcode = 240 -> [ inst |-> "BEQ", mode |-> "Relative", cycles |-> 2, extra |-> 1 ]
      [] OTHER        -> [ inst |-> "None", mode |-> "None", cycles |-> 0, extra |-> 0 ]

\* AddressingMode::get_data: the address, whether indexing crossed a page, and
\* the machine after the operand reads.  The i16 sum of Relative overflows for
\* no program counter in the cartridge, where next_pc as i16 is negative.
get_data(m, mode) ==
    CASE mode = "Immediate" ->
            [ m |-> m, addr |-> m.cpu.pc + 1, page_crossed |-> FALSE ]
      [] mode \in {"Implied", "Accumulator"} ->
            [ m |-> m, addr |-> 0, page_crossed |-> FALSE ]
      [] mode = "ZeroPageIndexed" ->
            The({ [ m |-> lo.m, addr |-> lo.val, page_crossed |-> FALSE ] :
                  lo \in {CPU6507_read(m, m.cpu.pc + 1)} })
      [] mode = "Absolute" ->
            The({ The({ [ m |-> hi.m, addr |-> hi.val * 256 + lo.val,
                          page_crossed |-> FALSE ] :
                        hi \in {CPU6507_read(lo.m, m.cpu.pc + 2)} }) :
                  lo \in {CPU6507_read(m, m.cpu.pc + 1)} })
      [] mode = "AbsoluteX" ->
            The({ The({ [ m |-> hi.m,
                          addr |-> (hi.val * 256 + lo.val + m.cpu.x) % 65536,
                          page_crossed |->
                              pages_differ(hi.val * 256 + lo.val,
                                           (hi.val * 256 + lo.val + m.cpu.x) % 65536) ] :
                        hi \in {CPU6507_read(lo.m, m.cpu.pc + 2)} }) :
                  lo \in {CPU6507_read(m, m.cpu.pc + 1)} })
      [] mode = "Relative" ->
            The({ [ m |-> offset.m,
                    addr |-> (m.cpu.pc + 2 + offset.val
                              - (IF offset.val >= 128 THEN 256 ELSE 0)) % 65536,
                    page_crossed |-> FALSE ] :
                  offset \in {CPU6507_read(m, m.cpu.pc + 1)} })
      [] OTHER ->
            [ m |-> [m EXCEPT !.panic = TRUE], addr |-> 0, page_crossed |-> FALSE ]

\* add_branch_cycles(pc, addr)
add_branch_cycles(m, pc, addr) ==
    IF pc \div 256 # addr \div 256
    THEN [m EXCEPT !.cpu.current_cycles = @ + 2, !.cpu.cycles = @ + 2]
    ELSE [m EXCEPT !.cpu.current_cycles = @ + 1, !.cpu.cycles = @ + 1]

\* the mutant of fetch_and_decode's sum that drops the page-cross penalty
instruction_cycles_no_penalty(cycles, page_crossed, extra_cycles) == cycles

\* fetch_and_decode: cycles + if page_crossed { extra_cycles } else { &0 }
instruction_cycles(cycles, page_crossed, extra_cycles) ==
    cycles + (IF page_crossed THEN extra_cycles ELSE 0)

\* fetch_and_decode, run without CPU6507_DEBUG: the machine after it and the
\* count it returns.
fetch_and_decode(m) ==
    The({ The({ [ m |-> [d.m EXCEPT
                           !.cpu.pc = @ + n_bytes(OPCODES(opcode.val).mode),
                           !.cpu.current_instruction = Some(OPCODES(opcode.val).inst),
                           !.cpu.current_addr = d.addr,
                           !.cpu.current_addr_mode = OPCODES(opcode.val).mode],
                  cycles |-> instruction_cycles(OPCODES(opcode.val).cycles,
                                                d.page_crossed,
                                                OPCODES(opcode.val).extra) ] :
                d \in {get_data(opcode.m, OPCODES(opcode.val).mode)} }) :
          opcode \in {CPU6507_read(m, m.cpu.pc)} })

\* bne, beq, ... : if the flag test holds, add_branch_cycles and jump
Branch(m, taken, addr) ==
    IF taken THEN [add_branch_cycles(m, m.cpu.pc, addr) EXCEPT !.cpu.pc = addr] ELSE m

\* execute: the instruction latched by fetch_and_decode, if any.  jam() is
\* process::exit(0); an instruction outside the match panics.
execute(m) ==
    IF ~IsSome(m.cpu.current_instruction) THEN m
    ELSE The({ [after EXCEPT !.cpu.current_instruction = None] :
               after \in {
                 CASE m.cpu.current_instruction[1] = "NOP" -> m
                   [] m.cpu.current_instruction[1] = "LDA" ->
                        The({ [rd.m EXCEPT !.cpu = [update_sz(@, rd.val) EXCEPT !.a = rd.val]] :
                              rd \in {CPU6507_read(m, m.cpu.current_addr)} })
                   [] m.cpu.current_instruction[1] = "LDX" ->
                        The({ [rd.m EXCEPT !.cpu = [update_sz(@, rd.val) EXCEPT !.x = rd.val]] :
                              rd \in {CPU6507_read(m, m.cpu.current_addr)} })
                   [] m.cpu.current_instruction[1] = "STA" ->
                        CPU6507_write(m, m.cpu.current_addr, m.cpu.a)
                   [] m.cpu.current_instruction[1] = "DEX" ->
                        [m EXCEPT !.cpu = [update_sz(@, (m.cpu.x + 255) % 256)
                                             EXCEPT !.x = (m.cpu.x + 255) % 256]]
                   [] m.cpu.current_instruction[1] = "JMP" ->
                        [m EXCEPT !.cpu.pc = m.cpu.current_addr]
                   [] m.cpu.current_instruction[1] = "BNE" ->
                        Branch(m, ~m.cpu.z, m.cpu.current_addr)
                   [] m.cpu.current_instruction[1] = "BEQ" ->
                        Branch(m, m.cpu.z, m.cpu.current_addr)
                   [] OTHER -> [m EXCEPT !.panic = TRUE] } })

\* step(): the machine after it and the cycle count it returns
CPU6507_step(m) ==
    The({ The({ [ m |-> m2, cycles |-> m2.cpu.cycles - m.cpu.cycles ] :
                m2 \in { IF f.m.panic THEN f.m
                         ELSE execute([f.m EXCEPT !.cpu.cycles = @ + f.cycles]) } }) :
          f \in {fetch_and_decode(m)} })

\* clock(), in a build with overflow checks (checked) or without: the
\* subtraction current_cycles -= 1 panics or wraps when the count is 0.
CPU6507_clock(m, checked) ==
    The({ IF m1.panic THEN m1
          ELSE IF m1.cpu.current_cycles = 0
          THEN IF checked THEN [m1 EXCEPT !.panic = TRUE]
               ELSE [m1 EXCEPT !.cpu.current_cycles = U64_MAX]
          ELSE IF m1.cpu.current_cycles = 1
          THEN execute([m1 EXCEPT !.cpu.current_cycles = 0])
          ELSE [m1 EXCEPT !.cpu.current_cycles = @ - 1] :
          m1 \in { IF m.cpu.current_cycles = 0
                   THEN The({ [f.m EXCEPT !.cpu.current_cycles = @ + f.cycles] :
                              f \in {fetch_and_decode(m)} })
                   ELSE m } })

\* reset(): the program counter from the vector at 0xFFFC, set_flags(0x24)
CPU6507_reset(m) ==
    The({ The({ [hi.m EXCEPT !.cpu = [@ EXCEPT
                    !.pc = hi.val * 256 + lo.val,
                    !.c = FALSE, !.z = FALSE, !.i = TRUE, !.d = FALSE,
                    !.b = FALSE, !.u = TRUE, !.v = FALSE, !.s = FALSE,
                    !.sp = 255, !.a = 0, !.x = 0, !.y = 0, !.cycles = 0]] :
                hi \in {CPU6507_read(lo.m, 65533)} }) :
          lo \in {CPU6507_read(m, 65532)} })

\* cmp(addr)
CPU6507_cmp(m, addr) ==
    The({ [rd.m EXCEPT !.cpu = [update_sz(@, (m.cpu.a + 256 - rd.val) % 256)
                                  EXCEPT !.c = (m.cpu.a >= rd.val)]] :
          rd \in {CPU6507_read(m, addr)} })

\* dec(addr)
CPU6507_dec(m, addr) ==
    The({ The({ CPU6507_write([rd.m EXCEPT !.cpu = update_sz(@, n)], addr, n) :
                n \in {(rd.val + 255) % 256} }) :
          rd \in {CPU6507_read(m, addr)} })

\* the mutant of dcp() that compares with the value read, not the one written
CPU6507_dcp_compares_old(m, addr) ==
    The({ The({ [w.m EXCEPT !.cpu = [update_sz(@, (m.cpu.a + 256 - rd.val) % 256)
                                       EXCEPT !.c = (m.cpu.a >= rd.val)]] :
                w \in {[ m |-> CPU6507_write(rd.m, addr, (rd.val + 255) % 256) ]} }) :
          rd \in {CPU6507_read(m, addr)} })

\* dcp(addr): dec's lines, then cmp's with the value written in place of a
\* read; the second n shadows the first, so the carry is a >= a - n
CPU6507_dcp(m, addr) ==
    The({ The({ The({ [w EXCEPT !.cpu = [update_sz(@, n2) EXCEPT !.c = (m.cpu.a >= n2)]] :
                      n2 \in {(m.cpu.a + 256 - n) % 256} }) :
                w \in {CPU6507_dec(m, addr)}, n \in {(rd.val + 255) % 256} }) :
          rd \in {CPU6507_read(m, addr)} })

\* stack_push8(val): the write goes to the address sp itself
stack_push8(m, val) ==
    The({ [w EXCEPT !.cpu.sp = (m.cpu.sp + 255) % 256] :
          w \in {CPU6507_write(m, m.cpu.sp, val)} })

\* stack_pop8(): the machine after it and the byte read
stack_pop8(m) ==
    CPU6507_read([m EXCEPT !.cpu.sp = (m.cpu.sp + 1) % 256], (m.cpu.sp + 1) % 256)

\* stack_push16(val): high byte first
stack_push16(m, val) == stack_push8(stack_push8(m, val \div 256), val % 256)

\* stack_pop16(): low byte first
stack_pop16(m) ==
    The({ The({ [ m |-> hi.m, val |-> hi.val * 256 + lo.val ] :
                hi \in {stack_pop8(lo.m)} }) :
          lo \in {stack_pop8(m)} })

\* jsr(addr), called with pc past the three bytes of the instruction
CPU6507_jsr(m, addr) ==
    [stack_push16(m, m.cpu.pc - 1) EXCEPT !.cpu.pc = addr]

\* the mutant of rts() that resumes at the address pulled, as rti() does
CPU6507_rts_as_pulled(m) ==
    The({ [got.m EXCEPT !.cpu.pc = got.val] : got \in {stack_pop16(m)} })

\* rts()
CPU6507_rts(m) ==
    The({ [got.m EXCEPT !.cpu.pc = got.val + 1] : got \in {stack_pop16(m)} })

----------------------------------------------------------------------------
(* The specifications.  Each drives one part of the program; the variables *)
(* of the parts it leaves out hold Unused throughout.                      *)

Unused == "unused"

\* A panic ends the process: no action is enabled once fault holds.
Running == ~fault

----------------------------------------------------------------------------
(* SpecCounter: a Counter under clock() and reset().                       *)

\* The (period, reset_value) pairs the program constructs: Counter::default()
\* for the objects and the playfield, the TIA's horizontal counter, the tests'.
CounterKinds == { <<40, 39>>, <<57, 0>>, <<40, 0>> }

\* since: clock() calls since the last reset() (-1 before the first reset(),
\* 4 * period + 1 once the span of 4 * period clocks is over); trues: how many of
\* them returned true; last: what the last one returned.
CounterObsInit == [ since |-> 0 - 1, trues |-> 0, last |-> FALSE ]

InitCounter ==
    /\ checks = FALSE /\ fault = FALSE
    /\ cnt \in { Counter_new(k[1], k[2]) : k \in CounterKinds }
    /\ cntObs = CounterObsInit
    /\ dec = Unused /\ cpu = Unused /\ cpuObs = Unused /\ riot = Unused
    /\ riotObs = Unused /\ tia = Unused /\ tiaObs = Unused /\ rom = Unused
    /\ busObs = Unused /\ core = Unused

notCounter == <<checks, fault, dec, cpu, cpuObs, riot, riotObs, tia, tiaObs, rom, busObs, core>>

CounterClock ==
    /\ Running
    /\ LET r == Counter_clock(cnt)
           span == 4 * cnt.period
       IN  /\ cnt' = r.c
           /\ cntObs' =
                IF cntObs.since < 0 \/ cntObs.since >= span
                THEN [cntObs EXCEPT !.since = IF cntObs.since < 0 THEN 0 - 1 ELSE span + 1]
                ELSE [ since |-> cntObs.since + 1,
                       trues |-> cntObs.trues + B2N(r.clocked),
                       last |-> r.clocked ]
    /\ UNCHANGED notCounter

CounterReset ==
    /\ Running
    /\ cnt' = Counter_reset(cnt)
    /\ cntObs' = [ since |-> 0, trues |-> 0, last |-> FALSE ]
    /\ UNCHANGED notCounter

NextCounter == CounterClock \/ CounterReset

SpecCounter == InitCounter /\ [][NextCounter]_vars

\* C1: for a counter of period P and reset value R, the P*4 clocks that follow
\* reset() return true on every 4th clock and on no other, exactly P times in
\* all, and leave the exposed value at R again.
C1_ResetSpan ==
    LET P == cnt.period
    IN  cntObs.since \in 1..(4 * P) =>
          /\ cntObs.last <=> (cntObs.since % 4 = 0)
          /\ cntObs.since = 4 * P =>
                (Counter_value(cnt) = cnt.reset_value /\ cntObs.trues = P)

\* C21: in every state, also right after reset(), clock() returns true exactly
\* when the exposed value after the call differs from the exposed value before
\* it (a step that leaves since at 0 is a reset(), every other one a clock()).
C21_ClockReportsChange ==
    [][ cntObs'.since # 0 =>
          (Counter_clock(cnt).clocked <=> Counter_value(cnt') # Counter_value(cnt)) ]_vars

----------------------------------------------------------------------------
(* SpecDecode: the two decoders applied to one 13-bit address.             *)

\* The processor puts addr & 0x1fff on the bus: [0, 0x2000).
AddressSpace == 8192

InitDecode ==
    /\ checks = FALSE /\ fault = FALSE
    /\ dec \in [ address : 0..(AddressSpace - 1), op : {"Read", "Write"},
                 done : {FALSE}, mem : {None}, bus : {None} ]
    /\ cnt = Unused /\ cntObs = Unused /\ cpu = Unused /\ cpuObs = Unused
    /\ riot = Unused /\ riotObs = Unused /\ tia = Unused /\ tiaObs = Unused
    /\ rom = Unused /\ busObs = Unused /\ core = Unused

Decode ==
    /\ Running /\ ~dec.done
    /\ dec' = [dec EXCEPT !.done = TRUE,
                          !.mem = Some(MemoryMirrors_from(dec.address, dec.op)),
                          !.bus = Some(MemoryMirrors_from_u16(dec.address))]
    /\ UNCHANGED <<checks, fault, cnt, cntObs, cpu, cpuObs, riot, riotObs, tia, tiaObs,
                   rom, busObs, core>>

NextDecode == Decode

SpecDecode == InitDecode /\ [][NextDecode]_vars

\* The category the select lines A12, A9 and A7 give an address.
SelectLines(address) ==
    LET a12 == (address \div A12) % 2
        a9  == (address \div A9) % 2
        a7  == (address \div A7) % 2
    IN  IF a12 = 1 THEN "Cartridge"
        ELSE IF a7 = 0 THEN "Tia"
        ELSE IF a9 = 1 THEN "PiaIO" ELSE "PiaRam"

\* C2: every address in [0, 0x2000) decodes to exactly one of cartridge, timer
\* I/O, timer RAM and video chip, the one its select lines name, in both
\* decoders; and decoding fails only for a video-chip sub-address that names no
\* register.
C2_DecodePartition ==
    dec.done =>
      LET m == dec.mem[1]
          kind == IF m.kind \in {"TiaRead", "TiaWrite"} THEN "Tia" ELSE m.kind
      IN  /\ kind = SelectLines(dec.address)
          /\ dec.bus[1] = SelectLines(dec.address)
          /\ m.end # "ok" => kind = "Tia"

----------------------------------------------------------------------------
(* SpecBus: reads and writes put on the AtariBus of a freshly built machine. *)

\* One or more addresses of every kind the bus tells apart: video-chip
\* registers (VSYNC/CXM0P, CXCLR) and a video-chip address naming none
\* (0x3f), timer RAM and a mirror of it (0x80, 0xff, 0x180), timer I/O
\* registers (SWCHA, INSTAT, TIM64T), an unassigned timer I/O address (0x286),
\* and the two ends of the cartridge (0x1000, 0x1fff).
BusAddresses == { 0, 44, 63, 128, 255, 384, 640, 645, 646, 662, 4096, 8191 }

BusValues == { 0, 255 }

\* How many accesses one run puts on the bus.
MaxBusAccesses == 3

InitBus ==
    /\ checks = FALSE /\ fault = FALSE
    /\ riot = RIOT_default /\ tia = TIA_default /\ rom = EmptyMem
    /\ busObs = [ n |-> 0, op |-> "none", address |-> 0, val |-> 0 ]
    /\ cnt = Unused /\ cntObs = Unused /\ dec = Unused /\ cpu = Unused
    /\ cpuObs = Unused /\ riotObs = Unused /\ tiaObs = Unused /\ core = Unused

notBus == <<checks, cnt, cntObs, dec, cpu, cpuObs, riotObs, tiaObs, core>>

BusRead(address) ==
    /\ Running /\ busObs.n < MaxBusAccesses
    /\ LET got == AtariBus_read(rom, riot, tia, address)
       IN  /\ fault' = got.panic
           /\ riot' = got.riot
           /\ busObs' = [ n |-> busObs.n + 1, op |-> "read", address |-> address,
                          val |-> got.val ]
    /\ UNCHANGED <<tia, rom>>
    /\ UNCHANGED notBus

BusWrite(address, val) ==
    /\ Running /\ busObs.n < MaxBusAccesses
    /\ LET got == AtariBus_write(rom, riot, tia, address, val)
       IN  /\ fault' = got.panic
           /\ riot' = got.riot /\ tia' = got.tia /\ rom' = got.rom
           /\ busObs' = [ n |-> busObs.n + 1, op |-> "write", address |-> address,
                          val |-> val ]
    /\ UNCHANGED notBus

NextBus ==
    \/ \E address \in BusAddresses : BusRead(address)
    \/ \E address \in BusAddresses, val \in BusValues : BusWrite(address, val)

SpecBus == InitBus /\ [][NextBus]_vars

\* TRUE of a timer I/O address that names no register of the chip.
UnassignedPiaIO(address) ==
    /\ SelectLines(address) = "PiaIO"
    /\ PiaAddress_from_address(BitAnd(address, 767)) = None

\* C3: every read put on the bus returns a byte and every write completes with
\* no fault raised; an address that names no register, such as the unassigned
\* timer I/O address 0x0286, reads as 0 and a write to it changes nothing.
C3_BusNeverFaults ==
    busObs.n > 0 =>
      /\ ~fault
      /\ busObs.val \in 0..255
      /\ (busObs.op = "read" /\ UnassignedPiaIO(busObs.address)) => busObs.val = 0

\* C15: whatever writes the bus has taken, a read of a cartridge address returns
\* the byte of the loaded image at offset (address AND 0xFFF).
C15_RomReadOnly ==
    (busObs.op = "read" /\ SelectLines(busObs.address) = "Cartridge") =>
        busObs.val = RomImage(BitAnd(busObs.address, 4095))

----------------------------------------------------------------------------
(* SpecAdc: one ADC from every accumulator, operand, carry and mode.       *)

InitAdc ==
    /\ checks = FALSE /\ fault = FALSE
    /\ cpu \in { [CPU6507_new EXCEPT !.a = a, !.c = c, !.d = d] :
                    a \in 0..255, c \in BOOLEAN, d \in BOOLEAN }
    /\ cpuObs \in [ done : {FALSE}, a : {cpu.a}, c : {cpu.c}, val : 0..255 ]
    /\ cnt = Unused /\ cntObs = Unused /\ dec = Unused /\ riot = Unused
    /\ riotObs = Unused /\ tia = Unused /\ tiaObs = Unused /\ rom = Unused
    /\ busObs = Unused /\ core = Unused

\* adc(addr) where the read of addr returns cpuObs.val
Adc ==
    /\ Running /\ ~cpuObs.done
    /\ cpu' = CPU6507_adc(cpu, cpuObs.val)
    /\ cpuObs' = [cpuObs EXCEPT !.done = TRUE]
    /\ UNCHANGED <<checks, fault, cnt, cntObs, dec, riot, riotObs, tia, tiaObs, rom,
                   busObs, core>>

NextAdc == Adc

SpecAdc == InitAdc /\ [][NextAdc]_vars

Negative(byte) == byte >= 128

\* C4: in binary mode ADC leaves the accumulator at (a + b + c) mod 256, the
\* carry flag at (a + b + c) > 255 and the overflow flag at "a and b have the
\* same sign and the result has the other", for every accumulator a, operand b
\* and carry-in c.
C4_BinaryAdc ==
    (cpuObs.done /\ ~cpu.d) =>
      LET n == cpuObs.a + cpuObs.val + B2N(cpuObs.c)
      IN  /\ cpu.a = n % 256
          /\ cpu.c <=> (n > 255)
          /\ cpu.v <=> /\ Negative(cpuObs.a) = Negative(cpuObs.val)
                       /\ Negative(cpu.a) # Negative(cpuObs.a)

\* a binary ADC that carried out of bit 7 and overflowed: 0x80 + 0xff + 1
C4_Witness ==
    /\ cpuObs.done /\ ~cpu.d
    /\ cpuObs.a = 128 /\ cpuObs.val = 255 /\ cpuObs.c
    /\ cpu.a = 128 /\ cpu.c /\ ~cpu.v

IsBCD(byte) == (byte % 16) <= 9 /\ (byte \div 16) <= 9
FromBCD(byte) == (byte \div 16) * 10 + (byte % 16)
ToBCD(n) == (n \div 10) * 16 + (n % 10)

\* C5: in decimal mode, for valid BCD a and b and carry-in c, ADC leaves the
\* accumulator at the BCD encoding of (a + b + c) mod 100 and the carry flag
\* set iff a + b + c >= 100; so 0x09 + 0x01 gives 0x10 with carry clear and
\* 0x99 + 0x01 gives 0x00 with carry set.
C5_DecimalAdc ==
    (cpuObs.done /\ cpu.d /\ IsBCD(cpuObs.a) /\ IsBCD(cpuObs.val)) =>
      LET n == FromBCD(cpuObs.a) + FromBCD(cpuObs.val) + B2N(cpuObs.c)
      IN  /\ cpu.a = ToBCD(n % 100)
          /\ cpu.c <=> (n >= 100)

\* the decimal ADC 0x99 + 0x01 with carry clear, giving 0x00 with carry set
C5_Witness ==
    /\ cpuObs.done /\ cpu.d
    /\ cpuObs.a = 153 /\ cpuObs.val = 1 /\ ~cpuObs.c
    /\ cpu.a = 0 /\ cpu.c

\* C38: after ADC the zero flag is set exactly when the binary sum
\* (A + M + C) mod 256 is zero, in decimal mode as in binary mode.
C38_AdcZeroFlag ==
    cpuObs.done =>
      (cpu.z <=> (cpuObs.a + cpuObs.val + B2N(cpuObs.c)) % 256 = 0)

----------------------------------------------------------------------------
(* SpecTimer: the RIOT's interval timer under clock(), writes to the four  *)
(* interval registers and reads of INSTAT.                                 *)

\* The interval registers TIM1T, TIM8T, TIM64T, T1024T and their intervals.
IntervalRegisters == { <<660, 1>>, <<661, 8>>, <<662, 64>>, <<663, 1024>> }

\* The values written to them.
TimerValues == { 0, 1, 5 }

\* How many clocks a chip whose timer was never written is followed for in a
\* build without overflow checks, where cycle_count counts down from usize::MAX.
MaxFreshClocks == 6

\* The bit of INSTAT that a read of INSTAT clears (riot.rs:167).
EXPIRED == 64

\* n, v: the interval and the value of the last interval write (n = 0: none);
\* k: clock() calls since that write, n * (v + 1) + 1 standing for any larger
\* number; u: the value of k at the first underflow since the write (-1: none
\* yet, 0: in the write itself); op: the last operation; stat: the byte the
\* last INSTAT read returned; reads: INSTAT reads since the last underflow
\* (-1: no underflow yet, 2: two or more).
RiotObsInit ==
    [ n |-> 0, v |-> 0, k |-> 0, u |-> 0 - 1, op |-> "none", stat |-> 0, reads |-> 0 - 1 ]

InitTimer ==
    /\ checks \in BOOLEAN /\ fault = FALSE
    /\ riot = RIOT_default
    /\ riotObs = RiotObsInit
    /\ cnt = Unused /\ cntObs = Unused /\ dec = Unused /\ cpu = Unused
    /\ cpuObs = Unused /\ tia = Unused /\ tiaObs = Unused /\ rom = Unused
    /\ busObs = Unused /\ core = Unused

notTimer == <<checks, cnt, cntObs, dec, cpu, cpuObs, tia, tiaObs, rom, busObs, core>>

\* clock() is about to call decrement() with intim at 0
ClockUnderflows(r) == r.cycle_count = 1 /\ r.intim = 0

TimerClock ==
    /\ Running
    /\ riot.cycle_count <= 1024 \/ riot.cycle_count > USIZE_MAX - MaxFreshClocks
    /\ LET got == RIOT_clock(riot)
           under == ClockUnderflows(riot)
           k1 == IF riotObs.k > riotObs.n * (riotObs.v + 1) THEN riotObs.k
                 ELSE riotObs.k + 1
       IN  IF got.overflow /\ checks
           THEN fault' = TRUE /\ UNCHANGED <<riot, riotObs>>
           ELSE /\ fault' = FALSE
                /\ riot' = got.r
                /\ riotObs' = [riotObs EXCEPT
                      !.op = "clock",
                      !.k = IF riotObs.n = 0 THEN 0 ELSE k1,
                      !.u = IF riotObs.n > 0 /\ under /\ riotObs.u < 0 THEN k1 ELSE @,
                      !.reads = IF under THEN 0 ELSE @]
    /\ UNCHANGED notTimer

TimerWrite(reg, val) ==
    /\ Running
    /\ LET got == RIOT_write(riot, reg[1], val)
       IN  /\ fault' = got.panic
           /\ riot' = got.r
           /\ riotObs' = [riotObs EXCEPT
                 !.op = "write", !.n = reg[2], !.v = val, !.k = 0,
                 !.u = IF val = 0 THEN 0 ELSE 0 - 1,
                 !.reads = IF val = 0 THEN 0 ELSE @]
    /\ UNCHANGED notTimer

ReadInstat ==
    /\ Running
    /\ LET got == RIOT_read(riot, 645)
       IN  /\ fault' = got.panic
           /\ riot' = got.r
           /\ riotObs' = [riotObs EXCEPT
                 !.op = "instat", !.stat = got.val,
                 !.reads = IF @ < 0 THEN @ ELSE IF @ >= 1 THEN 2 ELSE 1]
    /\ UNCHANGED notTimer

NextTimer ==
    \/ TimerClock
    \/ \E reg \in IntervalRegisters, val \in TimerValues : TimerWrite(reg, val)
    \/ ReadInstat

SpecTimer == InitTimer /\ [][NextTimer]_vars

\* C23: from the first underflow after an interval write until the next such
\* write every clock() takes 1 off the timer value (mod 256), whatever interval
\* was written; before that underflow the value goes down by 1 on every N-th
\* clock() since the write of interval N and stays on the others.
C23_TimerRate ==
    [][ (riotObs'.op = "clock" /\ riot' # riot /\ riotObs.n > 0) =>
          LET down == (riot.intim + 255) % 256
          IN  IF riotObs.u >= 0 THEN riot'.intim = down
              ELSE riot'.intim = IF riotObs'.k % riotObs.n = 0 THEN down ELSE riot.intim
      ]_vars

\* 5 written to TIM64T, the underflow at clock 320, and three clocks later the
\* value is three below 0xFF
C23_Witness ==
    /\ riotObs.op = "clock" /\ riotObs.n = 64 /\ riotObs.v = 5
    /\ riotObs.u = 320 /\ riotObs.k = 323 /\ riot.intim = 252

\* C35: in every reachable state of the chip, the one after RIOT::default()
\* with no interval written included, clock() finds cycle_count at 1 or more,
\* so that `self.cycle_count -= 1` never goes below zero.
C35_PrescaleAtLeastOne ==
    [][ (riotObs'.op = "clock" \/ fault') => riot.cycle_count >= 1 ]_vars

\* C36: bit 7 of INSTAT, once set, is set after every operation: a read of
\* INSTAT takes bit 6 alone out of the register, and a write to an interval
\* register takes out neither bit 7 nor bit 6.
C36_StatusBit7Kept ==
    [][ /\ riot.instat >= 128 => riot'.instat >= 128
        /\ riotObs'.op = "instat" =>
              riot'.instat = riot.instat - 64 * ((riot.instat \div 64) % 2)
        /\ riotObs'.op = "write" =>
              ((riot.instat \div 64) % 2 = 1 => (riot'.instat \div 64) % 2 = 1)
      ]_vars

\* an underflow that clocks brought about, a read of INSTAT, and then 5 written
\* to an interval register: bit 7 is still set, bit 6 still clear
C36_Witness ==
    /\ riotObs.op = "write" /\ riotObs.v = 5 /\ riotObs.reads = 1
    /\ riot.instat = 128 /\ riot.intim = 4

\* the timer's state while clocks alone have followed the last interval write
\* of value v with interval n: first underflow at clock `first`
TimerUnderflowsAt(first) ==
    /\ (riotObs.u < 0) <=> (riotObs.k < first)
    /\ riotObs.u >= 0 => riotObs.u = first
    /\ (riotObs.k = first /\ riotObs.op = "clock") =>
          (riot.intim = 255 /\ BitAnd(riot.instat, EXPIRED) = EXPIRED)

\* C6 (as stated): after a write of v to the interval register of N clocks the
\* first underflow comes after exactly N * (v + 1) clocks; after writing 0x05
\* to TIM8T and 48 clocks INTIM reads 0xff and INSTAT has the expired bit set.
C6_AsStated ==
    riotObs.n > 0 => TimerUnderflowsAt(riotObs.n * (riotObs.v + 1))

\* C6 (amended): the write itself takes the first decrement, so the first
\* underflow after a write of v >= 1 to the interval register of N clocks comes
\* after exactly N * v clocks, INTIM then reading 0xff with the expired bit of
\* INSTAT set (0x05 to TIM8T: after 40 clocks); a write of 0 underflows in the
\* write.
C6_UnderflowAfterNV ==
    riotObs.n > 0 =>
      IF riotObs.v = 0
      THEN riotObs.u = 0 /\ (riotObs.k = 0 /\ riotObs.op = "write" =>
                               riot.intim = 255 /\ BitAnd(riot.instat, EXPIRED) = EXPIRED)
      ELSE TimerUnderflowsAt(riotObs.n * riotObs.v)

\* 0x05 written to TIM8T and 40 clocks later: the underflow has just happened
C6_Witness ==
    /\ riotObs.n = 8 /\ riotObs.v = 5 /\ riotObs.k = 40 /\ riotObs.op = "clock"
    /\ riotObs.u = 40 /\ riot.intim = 255 /\ riot.instat = 192

\* C7: the first read of INSTAT after an underflow returns the expired bit set
\* and clears it; a further read with no underflow in between returns it clear.
C7_InstatReadClears ==
    (riotObs.op = "instat" /\ riotObs.reads >= 1) =>
      /\ BitAnd(riot.instat, EXPIRED) = 0
      /\ riotObs.reads = 1 => BitAnd(riotObs.stat, EXPIRED) = EXPIRED
      /\ riotObs.reads = 2 => BitAnd(riotObs.stat, EXPIRED) = 0

\* the second INSTAT read after an underflow that clocks brought about
C7_Witness ==
    /\ riotObs.op = "instat" /\ riotObs.reads = 2
    /\ riotObs.u > 0 /\ BitAnd(riotObs.stat, EXPIRED) = 0

----------------------------------------------------------------------------
(* The TIA under clock() and register writes.  SpecCollide and SpecLine    *)
(* differ in the writes they make and in when they make them.              *)

\* clk: clock() calls so far; op, address: the last operation and, for a
\* write, its address; regs: the value last written to each register written.
TiaObsInit == [ clk |-> 0, op |-> "none", address |-> 0, regs |-> EmptyMem ]

notTia == <<checks, cnt, cntObs, dec, cpu, cpuObs, riot, riotObs, rom, busObs, core>>

InitTia ==
    /\ checks = FALSE /\ fault = FALSE
    /\ tia = TIA_default
    /\ tiaObs = TiaObsInit
    /\ cnt = Unused /\ cntObs = Unused /\ dec = Unused /\ cpu = Unused
    /\ cpuObs = Unused /\ riot = Unused /\ riotObs = Unused /\ rom = Unused
    /\ busObs = Unused /\ core = Unused

TiaClock ==
    /\ Running
    /\ \E got \in {TIA_clock(tia)} :
           IF got.overflow /\ checks
           THEN fault' = TRUE /\ UNCHANGED <<tia, tiaObs>>
           ELSE /\ fault' = FALSE
                /\ tia' = got.t
                /\ tiaObs' = [tiaObs EXCEPT !.clk = @ + 1, !.op = "clock", !.address = 0]
    /\ UNCHANGED notTia

TiaWrite(address, val) ==
    /\ Running
    /\ tia' = TIA_write(tia, address, val)
    /\ tiaObs' = [tiaObs EXCEPT !.op = "write", !.address = address,
                                !.regs = ByteSet(@, address, val)]
    /\ UNCHANGED fault
    /\ UNCHANGED notTia

\* The machine's scanline: 228 TIA clocks (lib.rs:18).
CLOCKS_PER_SCANLINE == 228

----------------------------------------------------------------------------
(* SpecCollide: the ball and the playfield are set up to overlap, CXCLR    *)
(* and a write that touches neither are made, all at the start of a line.  *)

\* ENABL := 2, PF0 := 0xf0, RESBL, GRP0 := 0xff, RESP0, CXCLR, VSYNC := 2, as
\* <<address, value>>
CollideWrites ==
    { <<31, 2>>, <<13, 240>>, <<20, 0>>, <<27, 255>>, <<16, 0>>, <<44, 0>>, <<0, 2>> }

\* How many scanlines a run is followed for.
MaxCollideLines == 2

NextCollide ==
    \/ (tiaObs.clk < MaxCollideLines * CLOCKS_PER_SCANLINE /\ TiaClock)
    \/ \E w \in CollideWrites :
          tia.ctr.internal_value = 0 /\ TiaWrite(w[1], w[2])

SpecCollide == InitTia /\ [][NextCollide]_vars

CollisionRegisters ==
    { "cxm0p", "cxm1p", "cxp0fb", "cxp1fb", "cxm0fb", "cxm1fb", "cxblpf", "cxppmm" }

\* C8: a collision latch bit, once set, stays set through every clock and
\* every write other than CXCLR; the CXCLR strobe clears every latch.
C8_LatchesHold ==
    [][ IF tiaObs'.op = "write" /\ tiaObs'.address = 44
        THEN \A reg \in CollisionRegisters : tia'[reg] = 0
        ELSE \A reg \in CollisionRegisters : BitAnd(tia[reg], tia'[reg]) = tia[reg]
      ]_vars

\* the ball-playfield latch, set in the first line, still set after the write
\* to VSYNC at the start of the second, with the ball no longer drawn
C8_Witness ==
    /\ tia.cxblpf = 128
    /\ tiaObs.op = "write" /\ tiaObs.address = 0
    /\ tiaObs.clk = CLOCKS_PER_SCANLINE
    /\ ~IsSome(Object_get_color(tia.bl, tia.colors))

\* C25: in a visible clock outside the late horizontal blank the players,
\* missiles and ball advance before the collision latches are updated, so the
\* update sees the objects as the colour resolution of the same clock sees
\* them: the latches after the clock are those before it with the overlaps of
\* the advanced objects added.
C25_CollisionSeesAdvanced ==
    [][ (tiaObs'.op = "clock" /\ tiaObs'.clk = tiaObs.clk + 1
         /\ TIA_visible_cycle(tia') /\ ~TIA_in_late_reset(tia')) =>
          LET before == [tia' EXCEPT
                           !.cxm0p = tia.cxm0p, !.cxm1p = tia.cxm1p,
                           !.cxp0fb = tia.cxp0fb, !.cxp1fb = tia.cxp1fb,
                           !.cxm0fb = tia.cxm0fb, !.cxm1fb = tia.cxm1fb,
                           !.cxblpf = tia.cxblpf, !.cxppmm = tia.cxppmm]
          IN  \A reg \in CollisionRegisters :
                 tia'[reg] = TIA_update_collisions(before)[reg]
      ]_vars

----------------------------------------------------------------------------
(* SpecLine: the first scanline after power-on, the registers having been  *)
(* written before its first clock.                                         *)

\* PF0 := 0xf0 or 0x10, PF1 := 0 or 0x80, COLUPF := 0x44, COLUBK := 0x82,
\* ENABL := 2, CTRLPF := 1
LineWrites ==
    { <<13, 240>>, <<13, 16>>, <<14, 0>>, <<14, 128>>, <<8, 68>>, <<9, 130>>,
      <<31, 2>>, <<10, 1>> }

NextLine ==
    \/ (tiaObs.clk < CLOCKS_PER_SCANLINE /\ TiaClock)
    \/ \E w \in LineWrites : tiaObs.clk = 0 /\ TiaWrite(w[1], w[2])

SpecLine == InitTia /\ [][NextLine]_vars

\* one full scanline has been clocked with PF0 = 0xf0, PF1 = PF2 = 0, CTRLPF
\* as at power-on, the playfield and background colours set apart, and every
\* player, missile and the ball disabled
PlayfieldOnlyLine ==
    /\ tiaObs.clk = CLOCKS_PER_SCANLINE
    /\ 13 \in DOMAIN tiaObs.regs /\ tiaObs.regs[13] = 240
    /\ tia.pf.pf1 = 0 /\ tia.pf.pf2 = 0
    /\ 10 \notin DOMAIN tiaObs.regs
    /\ tia.colors.colupf # tia.colors.colubk
    /\ tia.p0.graphic = 0 /\ tia.p1.graphic = 0
    /\ ~tia.m0.enabled /\ ~tia.m1.enabled /\ ~tia.bl.enabled

\* the row whose pixels in lit have the playfield colour, the others the
\* background colour
PlayfieldRow(lit) ==
    [x \in 0..159 |-> IF x \in lit THEN tia.colors.colupf ELSE tia.colors.colubk]

\* C9 (as stated): such a line is a row whose first 4 pixels have the
\* playfield colour and whose other 156 have the background colour.
C9_AsStated == PlayfieldOnlyLine => tia.pixels = PlayfieldRow(0..3)

\* C9 (amended): each playfield bit is 4 pixels wide and the right half of the
\* line repeats the left, so such a line is a row in which exactly the pixels
\* 0..15 and 80..95 have the playfield colour and the other 128 the background
\* colour.
C9_PlayfieldRow == PlayfieldOnlyLine => tia.pixels = PlayfieldRow((0..15) \cup (80..95))

C9_Witness ==
    /\ PlayfieldOnlyLine
    /\ tia.colors.colupf = 68 /\ tia.colors.colubk = 130
    /\ tia.pixels[15] = 68 /\ tia.pixels[16] = 130 /\ tia.pixels[80] = 68

\* one full scanline has been clocked with the playfield and background
\* colours set apart and the ball, players and missiles disabled
PlayfieldLine ==
    /\ tiaObs.clk = CLOCKS_PER_SCANLINE
    /\ tia.colors.colupf # tia.colors.colubk
    /\ tia.p0.graphic = 0 /\ tia.p1.graphic = 0
    /\ ~tia.m0.enabled /\ ~tia.m1.enabled /\ ~tia.bl.enabled

\* C27: in the right half of such a line pixel x (80..159) shows the playfield
\* exactly when pixel x - 80 does if CTRLPF bit 0 is clear, and exactly when
\* pixel 159 - x does if it is set.
C27_RightHalf ==
    PlayfieldLine =>
      \A x \in 80..159 :
         LET reflect == BitAnd(ByteAt(tiaObs.regs, 10), 1) # 0
             twin    == IF reflect THEN 159 - x ELSE x - 80
         IN  (tia.pixels[x] = tia.colors.colupf) <=> (tia.pixels[twin] = tia.colors.colupf)

\* PF0 = 0x10, PF1 = 0x80 (bits 0 and 4), reflected: pixels 0..3 and 16..19 are
\* seen again at 156..159 and 140..143
C27_Witness ==
    /\ PlayfieldLine
    /\ ByteAt(tiaObs.regs, 10) = 1
    /\ ByteAt(tiaObs.regs, 13) = 16 /\ ByteAt(tiaObs.regs, 14) = 128
    /\ tia.pixels[0] = 68 /\ tia.pixels[4] = 130 /\ tia.pixels[16] = 68
    /\ tia.pixels[159] = 68 /\ tia.pixels[143] = 68 /\ tia.pixels[80] = 130
    /\ tia.pixels[96] = 130 /\ tia.pixels[139] = 130

----------------------------------------------------------------------------
(* SpecCore: EmulatorCore::scanline(), one action per turn of its loop.    *)
(* The processor is the bus master it is to the rest of the machine: a     *)
(* clock of it either leaves the chips alone or completes a store to WSYNC. *)

\* How many calls of scanline() a run is followed for.
MaxCoreLines == 2

\* handle_riot_clock: if c % 3 == 0
RiotClockDue(c) == c % 3 = 0

\* the mutant of handle_cpu_clock's condition that clocks a halted processor
CpuClockDue_while_halted(halt, c) == c % 3 = 2

\* handle_cpu_clock: if !self.tia.borrow().cpu_halt() && c % 3 == 2
CpuClockDue(halt, c) == ~halt /\ c % 3 = 2

CpuEffects == { "none", "wsync" }

\* c: the loop variable of scanline(), CLOCKS_PER_SCANLINE between two calls;
\* line: calls of scanline() begun; nRiot, nTia, nCpu: clock() calls the call
\* has made on each chip; nHalted: turns with c % 3 == 2 in which cpu_halt()
\* held.
InitCore ==
    /\ checks \in BOOLEAN /\ fault = FALSE
    /\ riot = [RIOT_default EXCEPT !.port_a = 240, !.port_b = 203]
    /\ tia = TIA_joystick_fire(TIA_default, FALSE)
    /\ rom = EmptyMem
    /\ core = [ c |-> CLOCKS_PER_SCANLINE, line |-> 0,
                nRiot |-> 0, nTia |-> 0, nCpu |-> 0, nHalted |-> 0 ]
    /\ cnt = Unused /\ cntObs = Unused /\ dec = Unused /\ cpu = Unused
    /\ cpuObs = Unused /\ riotObs = Unused /\ tiaObs = Unused /\ busObs = Unused

notCore == <<checks, cnt, cntObs, dec, cpu, cpuObs, riotObs, tiaObs, busObs>>

ScanlineBegin ==
    /\ Running /\ core.c = CLOCKS_PER_SCANLINE /\ core.line < MaxCoreLines
    /\ core' = [ c |-> 0, line |-> core.line + 1,
                 nRiot |-> 0, nTia |-> 0, nCpu |-> 0, nHalted |-> 0 ]
    /\ UNCHANGED <<fault, riot, tia, rom>>
    /\ UNCHANGED notCore

ScanlineClock ==
    /\ Running /\ core.c < CLOCKS_PER_SCANLINE
    /\ \E r1 \in { IF RiotClockDue(core.c) THEN RIOT_clock(riot)
                   ELSE [ r |-> riot, overflow |-> FALSE ] } :
         IF r1.overflow /\ checks
         THEN fault' = TRUE /\ UNCHANGED <<riot, tia, rom, core>>
         ELSE \E t1 \in {TIA_clock(tia)} :
                IF t1.overflow /\ checks
                THEN fault' = TRUE /\ riot' = r1.r /\ UNCHANGED <<tia, rom, core>>
                ELSE \E effect \in IF CpuClockDue(t1.t.wsync, core.c) THEN CpuEffects
                                   ELSE {"none"} :
                     \E w \in { IF effect = "wsync"
                                THEN AtariBus_write(rom, r1.r, t1.t, 2, 0)
                                ELSE [ rom |-> rom, riot |-> r1.r, tia |-> t1.t,
                                       panic |-> FALSE ] } :
                        /\ fault' = w.panic
                        /\ riot' = w.riot /\ tia' = w.tia /\ rom' = w.rom
                        /\ core' = [core EXCEPT
                              !.c = @ + 1,
                              !.nRiot = @ + B2N(RiotClockDue(core.c)),
                              !.nTia = @ + 1,
                              !.nCpu = @ + B2N(CpuClockDue(t1.t.wsync, core.c)),
                              !.nHalted = @ + B2N(core.c % 3 = 2 /\ t1.t.wsync)]
    /\ UNCHANGED notCore

NextCore == ScanlineBegin \/ ScanlineClock

SpecCore == InitCore /\ [][NextCore]_vars

\* C10: in a scanline step of 228 TIA clocks the RIOT is clocked exactly 76
\* times, on every third TIA clock starting with the first, and the processor
\* once in each three TIA clocks in which it is not halted: 76 times in a step
\* with no halt.
C10_ClockRatio ==
    (~fault /\ core.line >= 1) =>
      /\ core.nTia = core.c
      /\ core.nRiot = (core.c + 2) \div 3
      /\ core.nCpu + core.nHalted = core.c \div 3
      /\ core.c = CLOCKS_PER_SCANLINE =>
            /\ core.nTia = 228 /\ core.nRiot = 76
            /\ core.nHalted = 0 => core.nCpu = 76

\* the end of a second scanline step in which the processor was halted for a
\* part of the line
C10_Witness ==
    /\ ~fault /\ core.line = 2 /\ core.c = CLOCKS_PER_SCANLINE
    /\ core.nRiot = 76 /\ core.nTia = 228
    /\ core.nHalted > 0 /\ core.nCpu > 1 /\ core.nCpu + core.nHalted = 76

----------------------------------------------------------------------------
(* SpecSystem: EmulatorCore with the processor running a cartridge, one    *)
(* action per turn of scanline()'s loop, scanline after scanline as run()  *)
(* calls it.                                                               *)

\* The image read from the ROM file: code from 0xF000 + origin on, the reset
\* vector at 0xFFFC pointing to it.
Cartridge(origin, code) ==
    [ o \in (origin .. origin + Len(code) - 1) \cup {4092, 4093} |->
        IF o < 4092 THEN code[o - origin + 1]
        ELSE IF o = 4092 THEN origin % 256 ELSE 240 + origin \div 256 ]

\*   LDA #5 ; STA TIM64T ; l: STA WSYNC ; NOP ; JMP l
\*   LDA #5 ; STA TIM64T ; l: STA RSYNC ; STA WSYNC ; JMP l
\*   LDA #5 ; STA TIM64T ; l: STA WSYNC ; STA RSYNC ; JMP l
SystemPrograms ==
    { <<169, 5, 141, 150, 2, 133, 2, 234, 76, 5, 240>>,
      <<169, 5, 141, 150, 2, 133, 3, 133, 2, 76, 5, 240>>,
      <<169, 5, 141, 150, 2, 133, 2, 133, 3, 76, 5, 240>> }

\* How many calls of scanline() a run is followed for.
MaxSystemLines == 4

\* c: the loop variable of scanline(); line: calls of scanline() begun; halted:
\* cpu_halt() as handle_cpu_clock last found it; accesses: bus calls of the last
\* turn; since: TIA clocks made since the halt latch was set, 0 while it is
\* clear; releases: how often the latch went from set to clear.
InitSystem ==
    /\ checks \in BOOLEAN /\ fault = FALSE
    /\ \E code \in SystemPrograms :
         \E m \in { CPU6507_reset(Machine(CPU6507_new, Cartridge(0, code),
                        [RIOT_default EXCEPT !.port_a = 240, !.port_b = 203],
                        TIA_joystick_fire(TIA_default, FALSE))) } :
            cpu = m.cpu /\ rom = m.rom /\ riot = m.riot /\ tia = m.tia
    /\ core = [ c |-> CLOCKS_PER_SCANLINE, line |-> 0, halted |-> FALSE,
                accesses |-> 0, since |-> 0, releases |-> 0 ]
    /\ cnt = Unused /\ cntObs = Unused /\ dec = Unused
    /\ cpuObs = Unused /\ riotObs = Unused /\ tiaObs = Unused /\ busObs = Unused

notSystem == <<checks, cnt, cntObs, dec, cpuObs, riotObs, tiaObs, busObs>>

\* run() calls scanline() again
SystemScanline ==
    /\ Running /\ core.c = CLOCKS_PER_SCANLINE /\ core.line < MaxSystemLines
    /\ core' = [core EXCEPT !.c = 0, !.line = @ + 1]
    /\ UNCHANGED <<fault, cpu, riot, tia, rom>>
    /\ UNCHANGED notSystem

\* one turn: handle_riot_clock(c); tia.clock(); handle_cpu_clock(c)
SystemClock ==
    /\ Running /\ core.c < CLOCKS_PER_SCANLINE
    /\ \E r1 \in { IF RiotClockDue(core.c) THEN RIOT_clock(riot)
                   ELSE [ r |-> riot, overflow |-> FALSE ] } :
         IF r1.overflow /\ checks
         THEN fault' = TRUE /\ UNCHANGED <<cpu, riot, tia, rom, core>>
         ELSE \E t1 \in {TIA_clock(tia)} :
                IF t1.overflow /\ checks
                THEN fault' = TRUE /\ riot' = r1.r /\ UNCHANGED <<cpu, tia, rom, core>>
                ELSE \E m \in { IF CpuClockDue(t1.t.wsync, core.c)
                                THEN CPU6507_clock(Machine(cpu, rom, r1.r, t1.t), checks)
                                ELSE Machine(cpu, rom, r1.r, t1.t) } :
                        /\ fault' = m.panic
                        /\ cpu' = m.cpu /\ riot' = m.riot /\ tia' = m.tia /\ rom' = m.rom
                        /\ core' = [ c |-> core.c + 1, line |-> core.line,
                                     halted |-> t1.t.wsync,
                                     accesses |-> m.accesses,
                                     since |-> IF tia.wsync /\ t1.t.wsync
                                               THEN core.since + 1 ELSE 0,
                                     releases |-> core.releases
                                         + B2N(tia.wsync /\ ~t1.t.wsync) ]
    /\ UNCHANGED notSystem

NextSystem == SystemScanline \/ SystemClock

SpecSystem == InitSystem /\ [][NextSystem]_vars

\* C11: in a turn of the scanline loop in which the TIA's halt latch is set, the
\* processor is not clocked: its registers, flags, program counter and pending
\* cycles are unchanged and no bus access is made, while the TIA is clocked,
\* and the RIOT too if the turn is one of its own.
C11_HaltFreezesCpu ==
    [][ (core'.c = core.c + 1 /\ core'.halted) =>
          /\ cpu' = cpu /\ rom' = rom
          /\ core'.accesses = 0
          /\ tia' = TIA_clock(tia).t
          /\ riot' = IF RiotClockDue(core.c) THEN RIOT_clock(riot).r ELSE riot ]_vars

\* a turn that was the processor's own and found the latch set, after the
\* program has stored to WSYNC
C11_Witness ==
    /\ ~fault /\ core.halted /\ core.c % 3 = 0 /\ core.c > 0
    /\ core.since > 3 /\ cpu.current_cycles = 0 /\ cpu.a = 5

\* the scheduling of the loop: a turn that can be made is made
SpecSystemLive == SpecSystem /\ WF_vars(NextSystem)

\* C12: once a store to WSYNC has set the halt latch, the latch is cleared by the
\* TIA clock on which the horizontal counter's divided value next becomes 0,
\* and by no other; that is at most 228 TIA clocks after the store, so a halt
\* that begins before the last scanline followed always ends.
C12_HaltReleased ==
    /\ [](tia.wsync => core.since < CLOCKS_PER_SCANLINE)
    /\ [][ core'.c = core.c + 1 =>
             /\ (tia.wsync /\ ~core'.halted) => Counter_value(tia'.ctr) = 0
             /\ (tia.wsync /\ core'.halted) =>
                    ~(Counter_value(tia.ctr) # 0 /\ Counter_value(tia'.ctr) = 0) ]_vars
    /\ ((tia.wsync /\ core.line < MaxSystemLines) ~> ~tia.wsync)

\* the processor running again after its second halt has been released
C12_Witness ==
    /\ ~fault /\ core.releases = 2 /\ ~tia.wsync /\ ~core.halted
    /\ cpu.current_cycles > 0 /\ core.since = 0

----------------------------------------------------------------------------
(* SpecCpu: the processor alone on its bus, driven by clock() or by step(). *)

\* How many calls of clock() or step() a run is followed for.
MaxCpuCalls == 40

\* at 0xF000:  LDX #1 ; LDA $F0FF,X ; LDA $F010,X ; STA $00FF,X ; STA $80 ;
\*             l: JMP l
\* at 0xF0F8:  LDX #2 ; l: DEX ; BNE l ; BEQ m ; NOP ; m: LDA #0 ; BNE n ;
\*             n: JMP n                 (m is 0xF100, on the next page)
\* at 0xF000:  LDA #1 ; NOP ; JAM ; NOP ; l: JMP l
CpuPrograms ==
    { Cartridge(0, <<162, 1, 189, 255, 240, 189, 16, 240, 157, 255, 0, 133, 128,
                     76, 13, 240>>),
      Cartridge(248, <<162, 2, 202, 208, 253, 240, 1, 234, 169, 0, 208, 0,
                       76, 4, 241>>),
      Cartridge(0, <<169, 1, 234, 2, 234, 76, 5, 240>>) }

\* What a fetch finds: the opcode and where it was, with the index register and
\* the zero flag of that moment.
Fetched(m) ==
    [ pc |-> m.cpu.pc, op |-> RomByte(m.rom, m.cpu.pc % 4096),
      x |-> m.cpu.x, z |-> m.cpu.z ]

\* driver: which of the two entry points the run uses; n: calls made; cur: the
\* instruction last fetched; took: clock() calls from its fetch on; done: the
\* instruction before it with the clock() calls it occupied.
InitCpu ==
    /\ checks \in BOOLEAN /\ fault = FALSE
    /\ \E image \in CpuPrograms :
         \E m \in { CPU6507_reset(Machine(CPU6507_new, image,
                        [RIOT_default EXCEPT !.port_a = 240, !.port_b = 203],
                        TIA_joystick_fire(TIA_default, FALSE))) } :
            cpu = m.cpu /\ rom = m.rom /\ riot = m.riot /\ tia = m.tia
    /\ \E driver \in {"clock", "step"} :
         cpuObs = [ driver |-> driver, n |-> 0, cur |-> None, took |-> 0, done |-> None ]
    /\ cnt = Unused /\ cntObs = Unused /\ dec = Unused /\ core = Unused
    /\ riotObs = Unused /\ tiaObs = Unused /\ busObs = Unused

notCpu == <<checks, cnt, cntObs, dec, core, riotObs, tiaObs, busObs>>

CpuClock ==
    /\ Running /\ cpuObs.driver = "clock" /\ cpuObs.n < MaxCpuCalls
    /\ \E m \in {CPU6507_clock(Machine(cpu, rom, riot, tia), checks)} :
         /\ fault' = m.panic
         /\ cpu' = m.cpu /\ rom' = m.rom /\ riot' = m.riot /\ tia' = m.tia
    /\ cpuObs' = IF cpu.current_cycles = 0
                 THEN [cpuObs EXCEPT
                         !.n = @ + 1,
                         !.cur = Some(Fetched(Machine(cpu, rom, riot, tia))),
                         !.took = 1,
                         !.done = IF IsSome(cpuObs.cur)
                                  THEN Some([ i |-> cpuObs.cur[1], took |-> cpuObs.took ])
                                  ELSE None]
                 ELSE [cpuObs EXCEPT !.n = @ + 1, !.took = @ + 1]
    /\ UNCHANGED notCpu

CpuStep ==
    /\ Running /\ cpuObs.driver = "step" /\ cpuObs.n < MaxCpuCalls
    /\ \E got \in {CPU6507_step(Machine(cpu, rom, riot, tia))} :
         /\ fault' = got.m.panic
         /\ cpu' = got.m.cpu /\ rom' = got.m.rom
         /\ riot' = got.m.riot /\ tia' = got.m.tia
         /\ cpuObs' = [cpuObs EXCEPT
                         !.n = @ + 1,
                         !.cur = Some(Fetched(Machine(cpu, rom, riot, tia))),
                         !.took = got.cycles]
    /\ UNCHANGED notCpu

NextCpu == CpuClock \/ CpuStep

SpecCpu == InitCpu /\ [][NextCpu]_vars

\* The clocks the instruction i is to occupy: the base count of its opcode, one
\* more if it indexes across a page and its opcode has the penalty, and for a
\* branch one more if taken and a further one if the target is on another page
\* than the instruction after the branch.
CyclesDue(i) ==
    LET row    == OPCODES(i.op)
        lo     == RomByte(rom, (i.pc + 1) % 4096)
        after  == i.pc + 2
        target == after + lo - (IF lo >= 128 THEN 256 ELSE 0)
        taken  == \/ row.inst = "BNE" /\ ~i.z
                  \/ row.inst = "BEQ" /\ i.z
    IN  row.cycles
        + (IF row.mode = "AbsoluteX" /\ row.extra = 1 /\ lo + i.x > 255 THEN 1 ELSE 0)
        + (IF taken THEN 1 ELSE 0)
        + (IF taken /\ after \div 256 # target \div 256 THEN 1 ELSE 0)

\* C13: driven by clock(), an instruction occupies its base cycle count, plus one
\* clock for a page crossed by an opcode with the penalty, plus for a branch one
\* clock if taken and one more if the target is on another page (2, 3 or 4 in
\* all), and the next opcode is fetched on the clock after that.
C13_CyclesPerInstruction ==
    (cpuObs.driver = "clock" /\ IsSome(cpuObs.done)) =>
        /\ cpuObs.done[1].took = CyclesDue(cpuObs.done[1].i)
        /\ OPCODES(cpuObs.done[1].i.op).mode = "Relative" => cpuObs.done[1].took \in {2, 3, 4}

\* a branch taken to the next page has occupied 4 clocks and the opcode at
\* its target has been fetched
C13_Witness ==
    /\ ~fault /\ cpuObs.driver = "clock" /\ IsSome(cpuObs.done)
    /\ cpuObs.done[1].i.op = 240 /\ cpuObs.done[1].took = 4
    /\ cpuObs.cur[1].pc = 61696

\* C14: once a jam opcode has been fetched, by step() or by clock(), the process
\* has ended.
C14_JamHalts ==
    (IsSome(cpuObs.cur) /\ OPCODES(cpuObs.cur[1].op).inst = "JAM") => fault

----------------------------------------------------------------------------
(* SpecCounterOps: a Counter clocked to some position and then either      *)
(* moved by start_hmove() and apply_hmove() calls or reset by              *)
(* reset_to_h1() and clocked on.                                           *)

\* The motion registers' values: every high nibble, and two with low bits set.
MotionValues == { n * 16 : n \in 0..15 } \cup { 127, 143 }

\* How many clock() calls bring the counter to its position, how many
\* apply_hmove() calls follow a start_hmove(), how many clock() calls a
\* reset_to_h1().
MaxOpsTicks == 9
MaxOpsApplies == 17
MaxOpsClocks == 10

\* mode: "fresh", "hmove" after start_hmove(m), "h1" after reset_to_h1(); n:
\* clock() calls made while fresh; v0: internal_value when the mode was left;
\* calls: apply_hmove() or clock() calls made since; moves: how many of the
\* apply_hmove() calls returned moved; moved, clocked: what the last one
\* returned; same: whether it left the counter as it was.
InitCounterOps ==
    /\ checks = FALSE /\ fault = FALSE
    /\ cnt \in { Counter_new(40, 39), Counter_new(57, 0) }
    /\ cntObs = [ mode |-> "fresh", n |-> 0, m |-> 0, v0 |-> 0, calls |-> 0,
                  moves |-> 0, moved |-> FALSE, clocked |-> FALSE, same |-> TRUE ]
    /\ dec = Unused /\ cpu = Unused /\ cpuObs = Unused /\ riot = Unused
    /\ riotObs = Unused /\ tia = Unused /\ tiaObs = Unused /\ rom = Unused
    /\ busObs = Unused /\ core = Unused

OpsClock ==
    /\ Running
    /\ \/ cntObs.mode = "fresh" /\ cntObs.n < MaxOpsTicks
       \/ cntObs.mode = "h1" /\ cntObs.calls < MaxOpsClocks
    /\ cnt' = Counter_clock(cnt).c
    /\ cntObs' = IF cntObs.mode = "fresh" THEN [cntObs EXCEPT !.n = @ + 1]
                 ELSE [cntObs EXCEPT !.calls = @ + 1]
    /\ UNCHANGED notCounter

OpsStartHmove(m) ==
    /\ Running /\ cntObs.mode = "fresh"
    /\ cnt' = Counter_start_hmove(cnt, m)
    /\ cntObs' = [cntObs EXCEPT !.mode = "hmove", !.m = m, !.v0 = cnt.internal_value]
    /\ UNCHANGED notCounter

OpsApplyHmove ==
    /\ Running /\ cntObs.mode = "hmove" /\ cntObs.calls < MaxOpsApplies
    /\ \E r \in {Counter_apply_hmove(cnt, cntObs.m)} :
         /\ cnt' = r.c
         /\ cntObs' = [cntObs EXCEPT !.calls = @ + 1, !.moves = @ + B2N(r.moved),
                                     !.moved = r.moved, !.clocked = r.clocked,
                                     !.same = (r.c = cnt)]
    /\ UNCHANGED notCounter

OpsResetToH1 ==
    /\ Running /\ cntObs.mode = "fresh"
    /\ cnt' = Counter_reset_to_h1(cnt)
    /\ cntObs' = [cntObs EXCEPT !.mode = "h1", !.v0 = cnt.internal_value]
    /\ UNCHANGED notCounter

NextCounterOps ==
    \/ OpsClock
    \/ \E m \in MotionValues : OpsStartHmove(m)
    \/ OpsApplyHmove
    \/ OpsResetToH1

SpecCounterOps == InitCounterOps /\ [][NextCounterOps]_vars

\* C16: after start_hmove(m), of the apply_hmove(m) calls exactly the first T
\* clock the counter and return moved, T being n + 8 for n = m >> 4 below 8 and
\* n - 8 otherwise (so 0..15); every later call returns moved = false and
\* clocked = false and leaves the counter as it is; for n = 8 no call moves it.
C16_HmoveTicks ==
    cntObs.mode = "hmove" =>
      LET n == cntObs.m \div 16
          T == IF n < 8 THEN n + 8 ELSE n - 8
      IN  /\ T \in 0..15
          /\ cntObs.moves = IF cntObs.calls < T THEN cntObs.calls ELSE T
          /\ cnt.internal_value = (cntObs.v0 + cntObs.moves) % (cnt.period * DIVIDER)
          /\ cntObs.calls >= 1 =>
               /\ cntObs.moved <=> cntObs.calls <= T
               /\ cntObs.calls > T => ~cntObs.clocked /\ cntObs.same
          /\ n = 8 => cntObs.moves = 0

\* motion 0x70: the 15 extra clocks are in, and two more calls have moved nothing
C16_Witness ==
    /\ cntObs.mode = "hmove" /\ cntObs.m = 112 /\ cntObs.calls = 17
    /\ cntObs.moves = 15 /\ ~cntObs.moved /\ cntObs.v0 = 5 /\ cnt.internal_value = 20

\* C20: reset_to_h1() sets the internal value to value() * 4 and arms the
\* deferred reset; the next 7 clock() calls increment the counter, the 8th sets
\* it to reset_value * 4 before its increment, so that it reads
\* reset_value * 4 + 1, and the 9th takes it on from there.
C20_ResetToH1 ==
    cntObs.mode = "h1" =>
      LET P    == cnt.period * DIVIDER
          base == (cntObs.v0 \div DIVIDER) * DIVIDER
          k    == cntObs.calls
      IN  /\ k = 0 => cnt.internal_value = base /\ cnt.reset_delay = 8
          /\ k \in 1..7 => cnt.internal_value = (base + k) % P
          /\ k >= 8 => cnt.internal_value = (cnt.reset_value * DIVIDER + k - 7) % P

\* the default counter, reset at 0 and clocked 8 times: 1, 2, ..., 7, then 157
C20_Witness ==
    /\ cntObs.mode = "h1" /\ cnt.period = 40 /\ cntObs.v0 = 0
    /\ cntObs.calls = 8 /\ cnt.internal_value = 157

----------------------------------------------------------------------------
(* SpecCounterMotion: SpecCounterOps with the motion register rewritten    *)
(* while a movement is in progress.                                        *)

\* set_hmove_value(v) or hmclr() on the object between two apply_hmove() calls:
\* the calls that follow pass the new value
OpsSetMotion(m) ==
    /\ Running /\ cntObs.mode = "hmove" /\ cntObs.m # m
    /\ cntObs' = [cntObs EXCEPT !.m = m]
    /\ UNCHANGED cnt
    /\ UNCHANGED notCounter

NextCounterMotion ==
    \/ NextCounterOps
    \/ \E m \in MotionValues : OpsSetMotion(m)

SpecCounterMotion == InitCounterOps /\ [][NextCounterMotion]_vars

\* C22: between one start_hmove() and the next, whatever motion values the
\* apply_hmove() calls are given, the counter gets at most 15 extra clocks and
\* the movement latch is clear once 15 calls have moved it.
C22_AtMostFifteen ==
    cntObs.mode = "hmove" =>
      /\ cntObs.moves <= 15
      /\ cntObs.moves = 15 => ~cnt.movement_required

----------------------------------------------------------------------------
(* SpecPort: the RIOT's two I/O ports under writes and reads of their data *)
(* and direction registers, with the joystick moving a line of port A.     *)

\* SWCHA, SWACNT, SWCHB, SWBCNT
PortRegisters == { 640, 641, 642, 643 }

PortValues == { 0, 15, 255 }

\* How many accesses and joystick events a run is followed for.
MaxPortSteps == 4

\* n: steps made; op, reg, val: the last access and the byte a read returned;
\* wrote: for each data register the byte last written to it, None before the
\* first write.
InitPort ==
    /\ checks = FALSE /\ fault = FALSE
    /\ riot = [RIOT_default EXCEPT !.port_a = 240, !.port_b = 203]
    /\ riotObs = [ n |-> 0, op |-> "none", reg |-> 0, val |-> 0,
                   wrote |-> [ reg \in {640, 642} |-> None ] ]
    /\ cnt = Unused /\ cntObs = Unused /\ dec = Unused /\ cpu = Unused
    /\ cpuObs = Unused /\ tia = Unused /\ tiaObs = Unused /\ rom = Unused
    /\ busObs = Unused /\ core = Unused

notPort == <<checks, cnt, cntObs, dec, cpu, cpuObs, tia, tiaObs, rom, busObs, core>>

PortWrite(reg, val) ==
    /\ Running /\ riotObs.n < MaxPortSteps
    /\ \E got \in {RIOT_write(riot, reg, val)} :
         fault' = got.panic /\ riot' = got.r
    /\ riotObs' = [riotObs EXCEPT
                     !.n = @ + 1, !.op = "write", !.reg = reg, !.val = val,
                     !.wrote = IF reg \in DOMAIN @ THEN [@ EXCEPT ![reg] = Some(val)]
                               ELSE @]
    /\ UNCHANGED notPort

PortRead(reg) ==
    /\ Running /\ riotObs.n < MaxPortSteps
    /\ \E got \in {RIOT_read(riot, reg)} :
         /\ fault' = got.panic /\ riot' = got.r
         /\ riotObs' = [riotObs EXCEPT
                          !.n = @ + 1, !.op = "read", !.reg = reg, !.val = got.val]
    /\ UNCHANGED notPort

PortUp(pressed) ==
    /\ Running /\ riotObs.n < MaxPortSteps
    /\ riot' = RIOT_up(riot, pressed)
    /\ riotObs' = [riotObs EXCEPT !.n = @ + 1, !.op = "up"]
    /\ UNCHANGED fault
    /\ UNCHANGED notPort

NextPort ==
    \/ \E reg \in PortRegisters, val \in PortValues : PortWrite(reg, val)
    \/ \E reg \in {640, 642} : PortRead(reg)
    \/ \E pressed \in BOOLEAN : PortUp(pressed)

SpecPort == InitPort /\ [][NextPort]_vars

\* C17: a read of a port's data register returns, bit by bit, the byte last
\* written to that register where the direction bit is 1 and the externally
\* driven level where it is 0: (written AND ddr) OR (external AND NOT ddr).
C17_PortRead ==
    (riotObs.op = "read" /\ IsSome(riotObs.wrote[riotObs.reg])) =>
      LET written  == riotObs.wrote[riotObs.reg][1]
          ddr      == IF riotObs.reg = 640 THEN riot.swacnt ELSE riot.swbcnt
          external == IF riotObs.reg = 640 THEN riot.port_a ELSE riot.port_b
      IN  riotObs.val = BitOr(BitAnd(written, ddr), BitAnd(external, 255 - ddr))

-----------------------------------------------------------------------------
(* SpecPixel: TIA::get_pixel_color over every combination of reports       *)

\* COLUP0, COLUP1, COLUPF and COLUBK as a program has set them, all different
PixelColors == [ colup0 |-> 66, colup1 |-> 132, colupf |-> 198, colubk |-> 14 ]

\* what a scan counter holds for the current pixel
PixelBits == { None, Some(FALSE), Some(TRUE) }

\* what the playfield holds for the current pixel: nothing, COLUPF, or in
\* score mode the colour of the half's player
PixelPlayfield == { None, Some(198), Some(66), Some(132) }

\* resolved: the colour get_pixel_color returned, None before the call
InitPixel ==
    /\ checks = FALSE /\ fault = FALSE
    /\ \E b0, bm0, b1, bm1, bbl \in PixelBits, g \in PixelPlayfield, pri \in BOOLEAN :
         tia = [TIA_default EXCEPT
                  !.colors = PixelColors,
                  !.p0.scan_counter.bit_value = b0,
                  !.m0.scan_counter.bit_value = bm0,
                  !.p1.scan_counter.bit_value = b1,
                  !.m1.scan_counter.bit_value = bm1,
                  !.bl.scan_counter.bit_value = bbl,
                  !.pf.graphic_bit_value = g,
                  !.pf.priority = pri]
    /\ tiaObs = [ resolved |-> None ]
    /\ cnt = Unused /\ cntObs = Unused /\ dec = Unused /\ cpu = Unused
    /\ cpuObs = Unused /\ riot = Unused /\ riotObs = Unused /\ rom = Unused
    /\ busObs = Unused /\ core = Unused

PixelResolve ==
    /\ Running /\ ~IsSome(tiaObs.resolved)
    /\ tiaObs' = [ resolved |-> Some(TIA_get_pixel_color(tia)) ]
    /\ UNCHANGED <<fault, tia>>
    /\ UNCHANGED notTia

NextPixel == PixelResolve

SpecPixel == InitPixel /\ [][NextPixel]_vars

\* whether the object reports a colour on the current pixel
Reports(kind) ==
    CASE kind = "P0" -> tia.p0.scan_counter.bit_value = Some(TRUE)
      [] kind = "M0" -> tia.m0.scan_counter.bit_value = Some(TRUE)
      [] kind = "P1" -> tia.p1.scan_counter.bit_value = Some(TRUE)
      [] kind = "M1" -> tia.m1.scan_counter.bit_value = Some(TRUE)
      [] kind = "BL" -> tia.bl.scan_counter.bit_value = Some(TRUE)
      [] kind = "PF" -> IsSome(tia.pf.graphic_bit_value)

\* the colour the object reports
Reported(kind) ==
    CASE kind \in {"P0", "M0"} -> tia.colors.colup0
      [] kind \in {"P1", "M1"} -> tia.colors.colup1
      [] kind = "BL" -> tia.colors.colupf
      [] kind = "PF" -> tia.pf.graphic_bit_value[1]

PixelOrder ==
    IF tia.pf.priority THEN <<"PF", "BL", "P0", "M0", "P1", "M1">>
    ELSE <<"P0", "M0", "P1", "M1", "BL", "PF">>

-----------------------------------------------------------------------------
(* SpecFrame: EmulatorCore::run, one call of scanline() a step             *)

\* one turn of scanline()'s loop on the machine: handle_riot_clock(c);
\* tia.clock(); handle_cpu_clock(c)
scanline_turn(m, c, checked) ==
    IF m.panic THEN m
    ELSE The({ IF r1.overflow /\ checked THEN [m EXCEPT !.panic = TRUE]
               ELSE The({ IF t1.overflow /\ checked
                          THEN [m EXCEPT !.riot = r1.r, !.panic = TRUE]
                          ELSE IF CpuClockDue(t1.t.wsync, c)
                          THEN CPU6507_clock(Machine(m.cpu, m.rom, r1.r, t1.t), checked)
                          ELSE Machine(m.cpu, m.rom, r1.r, t1.t)
                          : t1 \in {TIA_clock(m.tia)} })
               : r1 \in { IF RiotClockDue(c) THEN RIOT_clock(m.riot)
                          ELSE [ r |-> m.riot, overflow |-> FALSE ] } })

\* the turns c .. c + n - 1 of the loop, n >= 1
RECURSIVE scanline_turns(_, _, _, _)
scanline_turns(m, c, n, checked) ==
    IF n = 1 THEN scanline_turn(m, c, checked)
    ELSE The({ scanline_turns(half, c + n \div 2, n - n \div 2, checked)
               : half \in {scanline_turns(m, c, n \div 2, checked)} })

\* scanline(): for c in 0..CLOCKS_PER_SCANLINE
EmulatorCore_scanline(m, checked) == scanline_turns(m, 0, CLOCKS_PER_SCANLINE, checked)

\* in_vblank(), in_vsync()
TIA_in_vblank(t) == BitAnd(t.vblank, 2) # 0

TIA_in_vsync(t) == t.vsync

FRAME_ROWS == 192

\* Rgba([0, 0, 0, 0xff]), what init_emulator fills the frame buffer with
OpaqueBlack == 0 - 2

\* the mutant of the row capture that always stores into the first row
Frame_store_first(frame, i, pixels) == [frame EXCEPT ![0] = pixels]

\* self.frame_pixels[i] = array.try_into()
Frame_store(frame, i, pixels) == [frame EXCEPT ![i] = pixels]

\*   f: LDA #2 ; STA VBLANK ; STA VSYNC ; STA COLUBK ; STA WSYNC ; LDA #0 ;
\*      STA VSYNC ; STA WSYNC ; STA VBLANK ; LDX #n ; l: STA WSYNC ; DEX ;
\*      BNE l ; JMP f
\* a picture of n lines between vertical blanks: 194 and 3
FrameProgram(n) ==
    <<169, 2, 133, 1, 133, 0, 133, 9, 133, 2, 169, 0, 133, 0, 133, 2, 133, 1,
      162, n, 133, 2, 202, 208, 251, 76, 0, 240>>

FramePictures == { 194, 3 }

\* How many calls of run() and of scanline() a run is followed for.
MaxFrames == 2

MaxFrameLines == 210

\* pc: where run() is ("idle" outside a call); i: the loop variable of the
\* visible loop; frames: calls of run() begun; lines: calls of scanline() made;
\* frame_pixels: the frame buffer.
InitFrame ==
    /\ checks \in BOOLEAN /\ fault = FALSE
    /\ \E n \in FramePictures :
         \E m \in { CPU6507_reset(Machine(CPU6507_new, Cartridge(0, FrameProgram(n)),
                        [RIOT_default EXCEPT !.port_a = 240, !.port_b = 203],
                        TIA_joystick_fire(TIA_default, FALSE))) } :
            cpu = m.cpu /\ rom = m.rom /\ riot = m.riot /\ tia = m.tia
    /\ core = [ pc |-> "idle", i |-> 0, frames |-> 0, lines |-> 0,
                frame_pixels |-> [ row \in 0..(FRAME_ROWS - 1) |->
                                     [ x \in 0..159 |-> OpaqueBlack ] ] ]
    /\ cnt = Unused /\ cntObs = Unused /\ dec = Unused
    /\ cpuObs = Unused /\ riotObs = Unused /\ tiaObs = Unused /\ busObs = Unused

\* self.scanline() in the phase the call is in, then what the phase does with
\* the line
FrameLine(visible) ==
    /\ core.lines < MaxFrameLines
    /\ \E m \in {EmulatorCore_scanline(Machine(cpu, rom, riot, tia), checks)} :
         /\ fault' = m.panic
         /\ cpu' = m.cpu /\ rom' = m.rom /\ riot' = m.riot /\ tia' = m.tia
         /\ core' = IF m.panic THEN core
                    ELSE IF visible
                    THEN [core EXCEPT !.lines = @ + 1, !.i = @ + 1,
                            !.frame_pixels = Frame_store(@, core.i, m.tia.pixels)]
                    ELSE [core EXCEPT !.lines = @ + 1]
    /\ UNCHANGED notSystem

FrameGoto(pc) ==
    /\ core' = [core EXCEPT !.pc = pc]
    /\ UNCHANGED <<fault, cpu, rom, riot, tia>>
    /\ UNCHANGED notSystem

\* a call of run()
RunCall ==
    /\ Running /\ core.pc = "idle" /\ core.frames < MaxFrames
    /\ core' = [core EXCEPT !.pc = "vsync", !.frames = @ + 1]
    /\ UNCHANGED <<fault, cpu, rom, riot, tia>>
    /\ UNCHANGED notSystem

\* while self.tia.borrow().in_vsync() { self.scanline(); }
RunVsyncLine == Running /\ core.pc = "vsync" /\ TIA_in_vsync(tia) /\ FrameLine(FALSE)

RunVsyncOver == Running /\ core.pc = "vsync" /\ ~TIA_in_vsync(tia) /\ FrameGoto("vblank")

\* while self.tia.borrow().in_vblank() { self.scanline(); }
RunVblankLine == Running /\ core.pc = "vblank" /\ TIA_in_vblank(tia) /\ FrameLine(FALSE)

\* the loop is left and for i in 0..192 begins
RunVblankOver ==
    /\ Running /\ core.pc = "vblank" /\ ~TIA_in_vblank(tia)
    /\ core' = [core EXCEPT !.pc = "visible", !.i = 0]
    /\ UNCHANGED <<fault, cpu, rom, riot, tia>>
    /\ UNCHANGED notSystem

\* for i in 0..192 { if in_vblank() { break; } self.scanline(); frame_pixels[i] = .. }
RunVisibleLine ==
    /\ Running /\ core.pc = "visible"
    /\ core.i < FRAME_ROWS /\ ~TIA_in_vblank(tia)
    /\ FrameLine(TRUE)

RunVisibleOver ==
    /\ Running /\ core.pc = "visible"
    /\ (core.i = FRAME_ROWS \/ TIA_in_vblank(tia))
    /\ FrameGoto("overscan")

\* while !self.tia.borrow().in_vsync() { self.scanline(); }
RunOverscanLine == Running /\ core.pc = "overscan" /\ ~TIA_in_vsync(tia) /\ FrameLine(FALSE)

\* run() returns
RunOverscanOver == Running /\ core.pc = "overscan" /\ TIA_in_vsync(tia) /\ FrameGoto("idle")

NextFrame ==
    \/ RunCall
    \/ RunVsyncLine \/ RunVsyncOver
    \/ RunVblankLine \/ RunVblankOver
    \/ RunVisibleLine \/ RunVisibleOver
    \/ RunOverscanLine \/ RunOverscanOver

SpecFrame == InitFrame /\ [][NextFrame]_vars

\* a call of scanline() has returned in this step
FrameLineMade == core'.lines = core.lines + 1

\* C18 (as stated): the visible phase of a call is 192 scanlines, so it is left
\* for the overscan phase only with all 192 rows written.
C18_AsStated ==
    [][ (core.pc = "visible" /\ core'.pc = "overscan") => core.i = FRAME_ROWS ]_vars

\* C18 (amended): a call of run() goes through the phases vertical sync,
\* vertical blank, visible, overscan in this order and then returns; a scanline
\* is made in the first two only with the phase's flag found set before it, in
\* the overscan only with VSYNC found clear, and in the visible phase only with
\* VBLANK found clear and fewer than 192 rows written; the i-th visible scanline
\* overwrites row i with the line's 160 pixels and no other row changes; the
\* visible phase is left after 192 rows or, earlier, when VBLANK is found set
\* at a scanline boundary, so that it has at most 192 scanlines.
C18_FramePhases ==
    /\ [](core.pc = "visible" => core.i \in 0..FRAME_ROWS)
    /\ [][ /\ core'.pc # core.pc =>
                /\ <<core.pc, core'.pc>> \in
                     { <<"idle", "vsync">>, <<"vsync", "vblank">>, <<"vblank", "visible">>,
                       <<"visible", "overscan">>, <<"overscan", "idle">> }
                /\ ~FrameLineMade /\ tia' = tia /\ cpu' = cpu
                /\ core'.frame_pixels = core.frame_pixels
                /\ core.pc = "vsync" => ~tia.vsync
                /\ core.pc = "vblank" => BitAnd(tia.vblank, 2) = 0 /\ core'.i = 0
                /\ core.pc = "visible" => core.i = FRAME_ROWS \/ BitAnd(tia.vblank, 2) # 0
                /\ core.pc = "overscan" => tia.vsync
           /\ FrameLineMade =>
                /\ core.pc = "vsync" => tia.vsync
                /\ core.pc = "vblank" => BitAnd(tia.vblank, 2) # 0
                /\ core.pc = "overscan" => ~tia.vsync
                /\ core.pc = "visible" =>
                     /\ BitAnd(tia.vblank, 2) = 0 /\ core.i < FRAME_ROWS
                     /\ core'.i = core.i + 1
                     /\ core'.frame_pixels[core.i] = tia'.pixels
                     /\ \A row \in 0..(FRAME_ROWS - 1) \ {core.i} :
                          core'.frame_pixels[row] = core.frame_pixels[row]
                /\ core.pc # "visible" => core'.frame_pixels = core.frame_pixels
                /\ core.pc # "idle"
         ]_vars

\* the second call has returned with all 192 rows written by its visible phase
C18_Witness ==
    /\ core.pc = "idle" /\ core.frames = 2 /\ core.i = FRAME_ROWS
    /\ \A row \in 0..(FRAME_ROWS - 1) : core.frame_pixels[row][159] = 2

-----------------------------------------------------------------------------
(* SpecLatch: TIA::update_collisions over every combination of reports,    *)
(* from cleared latches, and reads of the collision registers after it     *)

\* CXM0P .. CXPPMM
LatchRegisters == 48..55

\* updated: update_collisions() has been called; reg, val: the last register
\* read and the byte returned (reg = 0: none read)
InitLatch ==
    /\ checks = FALSE /\ fault = FALSE
    /\ \E b0, bm0, b1, bm1, bbl \in PixelBits, g \in {None, Some(198)} :
         tia = [TIA_default EXCEPT
                  !.colors = PixelColors,
                  !.p0.scan_counter.bit_value = b0,
                  !.m0.scan_counter.bit_value = bm0,
                  !.p1.scan_counter.bit_value = b1,
                  !.m1.scan_counter.bit_value = bm1,
                  !.bl.scan_counter.bit_value = bbl,
                  !.pf.graphic_bit_value = g]
    /\ tiaObs = [ updated |-> FALSE, reg |-> 0, val |-> 0 ]
    /\ cnt = Unused /\ cntObs = Unused /\ dec = Unused /\ cpu = Unused
    /\ cpuObs = Unused /\ riot = Unused /\ riotObs = Unused /\ rom = Unused
    /\ busObs = Unused /\ core = Unused

LatchUpdate ==
    /\ Running /\ ~tiaObs.updated
    /\ tia' = TIA_update_collisions(tia)
    /\ tiaObs' = [tiaObs EXCEPT !.updated = TRUE]
    /\ UNCHANGED fault
    /\ UNCHANGED notTia

LatchRead(reg) ==
    /\ Running /\ tiaObs.updated
    /\ tiaObs' = [tiaObs EXCEPT !.reg = reg, !.val = TIA_read(tia, reg)]
    /\ UNCHANGED <<fault, tia>>
    /\ UNCHANGED notTia

NextLatch == LatchUpdate \/ \E reg \in LatchRegisters : LatchRead(reg)

SpecLatch == InitLatch /\ [][NextLatch]_vars

\* how many of bits 7 and 6 of the eight latch registers are set
LatchBitsSet ==
    LET regs == <<tia.cxm0p, tia.cxm1p, tia.cxp0fb, tia.cxp1fb,
                  tia.cxm0fb, tia.cxm1fb, tia.cxblpf, tia.cxppmm>>
        RECURSIVE Sum(_)
        Sum(i) == IF i = 0 THEN 0
                  ELSE Sum(i - 1) + B2N(BitAnd(regs[i], 128) # 0)
                                  + B2N(BitAnd(regs[i], 64) # 0)
    IN  Sum(8)

\* the pairs of distinct objects that both report a colour
OverlappingPairs ==
    { pair \in SUBSET {"P0", "P1", "M0", "M1", "BL", "PF"} :
        Cardinality(pair) = 2 /\ \A kind \in pair : Reports(kind) }

\* C24: after update_collisions() on cleared latches every overlapping pair has
\* set a latch bit of its own and no other bit is set; an M1-PF overlap is bit 7
\* and an M1-BL overlap bit 6 of CXM1FB, read at 0x35, and CXM0FB holds M0's
\* overlaps with the playfield and the ball only.
C24_PairLatches ==
    tiaObs.updated =>
      /\ LatchBitsSet = Cardinality(OverlappingPairs)
      /\ tia.cxm1fb = 128 * B2N(Reports("M1") /\ Reports("PF"))
                       + 64 * B2N(Reports("M1") /\ Reports("BL"))
      /\ tia.cxm0fb = 128 * B2N(Reports("M0") /\ Reports("PF"))
                       + 64 * B2N(Reports("M0") /\ Reports("BL"))
      /\ tiaObs.reg = 53 => tiaObs.val = tia.cxm1fb

-----------------------------------------------------------------------------
(* SpecPlayfieldBits: writes to PF0, PF1 and PF2 in any order              *)

\* the bytes written: none, one bit at either end, a low nibble, mixed, all
PlayfieldBytes == { 0, 1, 31, 128, 165, 255 }

NextPlayfieldBits ==
    \E reg \in {13, 14, 15}, val \in PlayfieldBytes : TiaWrite(reg, val)

SpecPlayfieldBits == InitTia /\ [][NextPlayfieldBits]_vars

\* bit b of the byte last written to the register at address reg
WrittenBit(reg, b) == (ByteAt(tiaObs.regs, reg) \div (2 ^ b)) % 2 = 1

\* C26: of the 20 playfield bits, counted from the left, bit i is PF0 bit 4 + i
\* for i in 0..3, PF1 bit 11 - i for i in 4..11 and PF2 bit i - 12 for i in
\* 12..19, each taken from the byte last written to its register: PF0's low
\* nibble has no effect and a write to one register leaves the bits of the
\* other two as they are.
C26_PlayfieldBits ==
    \A i \in 0..(PF_LENGTH - 1) :
       PlayfieldData_bit(tia.pf, i) <=>
          IF i <= 3 THEN WrittenBit(13, 4 + i)
          ELSE IF i <= 11 THEN WrittenBit(14, 11 - i)
          ELSE WrittenBit(15, i - 12)

\* PF0 = 0x1f, PF1 = 0x01, PF2 = 0x01: exactly the bits 0, 11 and 12 are set
C26_Witness ==
    /\ ByteAt(tiaObs.regs, 13) = 31 /\ ByteAt(tiaObs.regs, 14) = 1
    /\ ByteAt(tiaObs.regs, 15) = 1 /\ tiaObs.address = 14
    /\ \A i \in 0..(PF_LENGTH - 1) : PlayfieldData_bit(tia.pf, i) <=> i \in {0, 11, 12}

-----------------------------------------------------------------------------
(* SpecDcp: DCP on the RAM cell 0x80 (byte 0 of the RIOT's RAM) from every *)
(* accumulator and cell value, beside DEC and then CMP on the same cell    *)

\* done: the instruction has run; a, val: the accumulator and the cell before
\* it; cpu, riot: the registers and the RIOT as dec(addr); cmp(addr) leaves them
InitDcp ==
    /\ checks = FALSE /\ fault = FALSE
    /\ \E a \in 0..255, val \in 0..255 :
         /\ cpu = [CPU6507_new EXCEPT !.a = a]
         /\ riot = [RIOT_default EXCEPT !.ram = ByteSet(EmptyMem, 0, val)]
         /\ cpuObs = [ done |-> FALSE, a |-> a, val |-> val, cpu |-> cpu, riot |-> riot ]
    /\ cnt = Unused /\ cntObs = Unused /\ dec = Unused /\ riotObs = Unused
    /\ tia = Unused /\ tiaObs = Unused /\ rom = Unused
    /\ busObs = Unused /\ core = Unused

Dcp ==
    /\ Running /\ ~cpuObs.done
    /\ \E m \in {Machine(cpu, EmptyMem, riot, TIA_default)} :
         \E one \in {CPU6507_dcp(m, 128)}, two \in {CPU6507_cmp(CPU6507_dec(m, 128), 128)} :
            /\ fault' = one.panic
            /\ cpu' = one.cpu /\ riot' = one.riot
            /\ cpuObs' = [cpuObs EXCEPT !.done = TRUE, !.cpu = two.cpu, !.riot = two.riot]
    /\ UNCHANGED <<checks, cnt, cntObs, dec, riotObs, tia, tiaObs, rom, busObs, core>>

NextDcp == Dcp

SpecDcp == InitDcp /\ [][NextDcp]_vars

\* C28: for every accumulator and every value of the cell, DCP leaves the
\* cell, the accumulator and the carry, zero and sign flags as DEC and then CMP
\* on the cell leave them: the cell one lower (mod 256), the accumulator as it
\* was, and the flags of comparing the accumulator with the new cell value.
C28_DcpIsDecCmp ==
    cpuObs.done =>
      LET cell == (cpuObs.val + 255) % 256
          diff == (cpuObs.a + 256 - cell) % 256
      IN  /\ riot.ram = cpuObs.riot.ram
          /\ cpu.a = cpuObs.cpu.a /\ cpu.c = cpuObs.cpu.c
          /\ cpu.z = cpuObs.cpu.z /\ cpu.s = cpuObs.cpu.s
          /\ ByteAt(riot.ram, 0) = cell /\ cpu.a = cpuObs.a
          /\ cpu.c = (cpuObs.a >= cell) /\ cpu.z = (cpuObs.a = cell)
          /\ cpu.s = (diff >= 128)

\* accumulator 0x10, cell 0x21: the cell becomes 0x20, the difference 0xf0,
\* carry clear and sign set
C28_Witness ==
    /\ cpuObs.done /\ cpuObs.a = 16 /\ cpuObs.val = 33
    /\ ByteAt(riot.ram, 0) = 32 /\ ~cpu.c /\ cpu.s /\ ~cpu.z

-----------------------------------------------------------------------------
(* SpecCopies: two scanlines with NUSIZ0 written before the first clock    *)

\* How many scanlines a run is followed for.
MaxCopyLines == 2

NextCopies ==
    \/ (tiaObs.clk < MaxCopyLines * CLOCKS_PER_SCANLINE /\ TiaClock)
    \/ \E n \in 0..7 : tiaObs.clk = 0 /\ TiaWrite(4, n)

SpecCopies == InitTia /\ [][NextCopies]_vars

\* the counter values at which the 3-bit copy field n starts a copy
CopyStarts(n) ==
    CASE n = 1 -> {3}
      [] n = 2 -> {7}
      [] n = 3 -> {3, 7}
      [] n = 4 -> {15}
      [] n = 6 -> {7, 15}
      [] OTHER -> {}

\* this step changed the object and left its scan at the start of the delay
ScanRestarts(o, o1) ==
    /\ o1 # o
    /\ o1.scan_counter.bit_idx = Some(0 - o1.init_delay)
    /\ o1.scan_counter.bit_copies_written = 0

\* this step brought the object's counter to a new exposed value in starts
CounterArrives(o, o1, starts) ==
    /\ Counter_value(o1.ctr) # Counter_value(o.ctr)
    /\ Counter_value(o1.ctr) \in starts

\* C29: a player or missile restarts its scan exactly when its counter arrives
\* at 39 or at a value its copy field selects (001: 3, 010: 7, 011: 3 and 7,
\* 100: 15, 110: 7 and 15, 000, 101, 111: none), at most 3 values in all; the
\* ball restarts at 39 only.
C29_CopyStarts ==
    [][ tiaObs'.op = "clock" =>
          LET n == BitAnd(ByteAt(tiaObs.regs, 4), 7)
          IN  /\ Cardinality({39} \cup CopyStarts(n)) <= 3
              /\ ScanRestarts(tia.p0, tia'.p0)
                   <=> CounterArrives(tia.p0, tia'.p0, {39} \cup CopyStarts(n))
              /\ ScanRestarts(tia.m0, tia'.m0)
                   <=> CounterArrives(tia.m0, tia'.m0, {39} \cup CopyStarts(n))
              /\ ScanRestarts(tia.bl, tia'.bl) <=> CounterArrives(tia.bl, tia'.bl, {39})
      ]_vars

\* copy field 110: player 0 and missile 0 have just restarted at 15, the ball
\* has not
C29_Witness ==
    /\ ByteAt(tiaObs.regs, 4) = 6 /\ tiaObs.op = "clock"
    /\ tia.p0.ctr.internal_value = 60 /\ tia.p0.scan_counter.bit_idx = Some(0 - 5)
    /\ tia.m0.ctr.internal_value = 60 /\ tia.m0.scan_counter.bit_idx = Some(0 - 4)
    /\ tia.bl.ctr.internal_value = 60 /\ tia.bl.scan_counter.bit_idx = None

-----------------------------------------------------------------------------
(* SpecScan: two scanlines with the sizes written before the first clock;  *)
(* every object restarts its scan at the end of the first line, from idle  *)

\* NUSIZ0 := 0x00, 0x05, 0x07, 0x10, 0x25, 0x37 (player sizes 1, 2, 4, missile
\* sizes 1, 2, 4, 8, no copies), CTRLPF := 0x00, 0x10, 0x20, 0x30 (ball sizes
\* 1, 2, 4, 8), ENABL := 2, as <<address, value>>
ScanWrites ==
    { <<4, 0>>, <<4, 5>>, <<4, 7>>, <<4, 16>>, <<4, 37>>, <<4, 55>>,
      <<10, 0>>, <<10, 16>>, <<10, 32>>, <<10, 48>>, <<31, 2>> }

\* How many scanlines a run is followed for.
MaxScanLines == 2

NextScan ==
    \/ (tiaObs.clk < MaxScanLines * CLOCKS_PER_SCANLINE /\ TiaClock)
    \/ \E w \in ScanWrites : tiaObs.clk = 0 /\ TiaWrite(w[1], w[2])

SpecScan == InitTia /\ [][NextScan]_vars

\* the object's counter has been at 39 and the scan restarted there, at internal
\* value 156; every clock of the object since was one tick of its scan circuit
ScanStarted(o) == o.ctr.internal_value >= 156 \/ tiaObs.clk >= CLOCKS_PER_SCANLINE - 1

ScanTicks(o) == (o.ctr.internal_value + 4) % 160

\* the scan circuit k ticks after a restart from idle, for size s, delay d and
\* g bits: no bit latched through the delay, bit (k - d - 1) \div s latched in
\* the s ticks that are its own, idle after the tick that follows the last
ScanAfter(o, k, s, d, g) ==
    IF k <= d
    THEN o.scan_counter.bit_idx = Some(k - d) /\ o.scan_counter.bit_value = None
    ELSE IF k <= d + g * s
    THEN /\ IsSome(o.scan_counter.bit_value)
         /\ o.scan_counter.bit_idx = IF k = d + g * s THEN None ELSE Some((k - d) \div s)
         /\ o.scan_counter.bit_copies_written = (k - d) % s
    ELSE o.scan_counter.bit_idx = None /\ o.scan_counter.bit_value = None

\* C30: after a restart from idle with size s >= 1 and no further restart the
\* scan circuit has no bit latched for INIT_DELAY ticks (5 for a player, 4 for a
\* missile and the ball), then latches each of its GRAPHIC_SIZE bits (8 for a
\* player, 1 for a missile and the ball) for s ticks in a row, and from the
\* tick after the last of them has no bit index and no bit latched.
C30_ScanLifecycle ==
    /\ (ScanStarted(tia.p0) /\ Object_size(tia.p0) >= 1) =>
          ScanAfter(tia.p0, ScanTicks(tia.p0), Object_size(tia.p0), 5, 8)
    /\ (ScanStarted(tia.m0) /\ Object_size(tia.m0) >= 1) =>
          ScanAfter(tia.m0, ScanTicks(tia.m0), Object_size(tia.m0), 4, 1)
    /\ (ScanStarted(tia.bl) /\ Object_size(tia.bl) >= 1) =>
          ScanAfter(tia.bl, ScanTicks(tia.bl), Object_size(tia.bl), 4, 1)

\* 0x25 in NUSIZ0 and the ball enabled at size 1: 13 ticks after the restart the
\* double-size player latches its bit 3 for the second time, the quadruple
\* missile is idle since the tick before and the ball since 7 ticks
C30_Witness ==
    /\ ByteAt(tiaObs.regs, 4) = 37 /\ tia.bl.enabled /\ tia.bl.nusiz = 1
    /\ tiaObs.clk > CLOCKS_PER_SCANLINE /\ tia.p0.ctr.internal_value = 9
    /\ tia.p0.scan_counter.bit_idx = Some(4) /\ IsSome(tia.p0.scan_counter.bit_value)
    /\ tia.m0.ctr.internal_value = 9 /\ tia.m0.scan_counter.bit_idx = None
    /\ tia.m0.scan_counter.bit_value = None
    /\ tia.bl.scan_counter.bit_idx = None /\ tia.bl.scan_counter.bit_value = None

\* C39: for every object and whatever its registers hold, a missile whose
\* NUSIZ was never written included, a scan that is not restarted is back at
\* idle (bit index None) 40 ticks after its restart and from then on.
C39_ScanEnds ==
    /\ (ScanStarted(tia.p0) /\ ScanTicks(tia.p0) >= 40) => tia.p0.scan_counter.bit_idx = None
    /\ (ScanStarted(tia.m0) /\ ScanTicks(tia.m0) >= 40) => tia.m0.scan_counter.bit_idx = None
    /\ (ScanStarted(tia.bl) /\ ScanTicks(tia.bl) >= 40) => tia.bl.scan_counter.bit_idx = None

-----------------------------------------------------------------------------
(* SpecJsr: a JSR and then the RTS of the subroutine, from stack pointers  *)
(* on both sides of the RAM's lower end and of the wrap                    *)

\* 0x00 and 0x01 wrap within the two pushes; 0x80 puts the second byte below
\* the RAM, 0x7f both; 0x81 and 0xff keep both in the RAM (0x80..0xff)
StackPointers == { 0, 1, 127, 128, 129, 255 }

\* where the JSR is: 0x1000, 0xf0fd (the instruction after it starts a page),
\* 0xfffa
JsrAddresses == { 4096, 61693, 65530 }

\* where it goes
JsrTargets == { 0, 4660, 61440 }

\* at: "start", "called" after the JSR, "back" after the RTS; jsr, sp: the
\* address of the JSR and the stack pointer before it; to, called: its target
\* and the stack pointer after it
InitJsr ==
    /\ checks = FALSE /\ fault = FALSE
    /\ \E sp \in StackPointers, jsr \in JsrAddresses :
         /\ cpu = [CPU6507_new EXCEPT !.sp = sp, !.pc = jsr]
         /\ cpuObs = [ at |-> "start", jsr |-> jsr, sp |-> sp, to |-> jsr, called |-> sp ]
    /\ riot = RIOT_default /\ tia = TIA_default
    /\ cnt = Unused /\ cntObs = Unused /\ dec = Unused /\ riotObs = Unused
    /\ tiaObs = Unused /\ rom = Unused /\ busObs = Unused /\ core = Unused

notJsr == <<checks, cnt, cntObs, dec, riotObs, tiaObs, rom, busObs, core>>

\* fetch_and_decode has moved pc past the Absolute instruction when execute
\* calls jsr(addr) (cpu6507.rs:369)
Jsr(addr) ==
    /\ Running /\ cpuObs.at = "start"
    /\ \E m \in {CPU6507_jsr(Machine([cpu EXCEPT !.pc = @ + n_bytes("Absolute")],
                                     EmptyMem, riot, tia), addr)} :
         /\ fault' = m.panic
         /\ cpu' = m.cpu /\ riot' = m.riot /\ tia' = m.tia
         /\ cpuObs' = [cpuObs EXCEPT !.at = "called", !.to = m.cpu.pc, !.called = m.cpu.sp]
    /\ UNCHANGED notJsr

Rts ==
    /\ Running /\ cpuObs.at = "called"
    /\ \E m \in {CPU6507_rts(Machine(cpu, EmptyMem, riot, tia))} :
         /\ fault' = m.panic
         /\ cpu' = m.cpu /\ riot' = m.riot /\ tia' = m.tia
         /\ cpuObs' = [cpuObs EXCEPT !.at = "back"]
    /\ UNCHANGED notJsr

NextJsr == Rts \/ \E addr \in JsrTargets : Jsr(addr)

SpecJsr == InitJsr /\ [][NextJsr]_vars

\* the two bytes of a JSR from stack pointer sp are at sp and sp - 1 (mod 256);
\* the RAM answers at 0x80..0xff
InRam(address) == address >= 128 /\ address <= 255
PushedInRam(sp) == InRam(sp) /\ InRam((sp + 255) % 256)

\* C40: a JSR to any target leaves the stack pointer two lower (mod 256); the
\* RTS that finds the stack pointer and the two bytes as the JSR left them puts
\* the stack pointer back to its value before the JSR, also where it wrapped,
\* and, the two bytes being held in RAM, resumes at the address of the JSR + 3.
C40_JsrRts ==
    /\ cpuObs.at = "called" => cpu.sp = (cpuObs.sp + 254) % 256 /\ cpu.pc = cpuObs.to
    /\ cpuObs.at = "back" =>
          /\ cpu.sp = cpuObs.sp
          /\ PushedInRam(cpuObs.sp) => cpu.pc = cpuObs.jsr + 3

\* back from the JSR at 0xf0fd, whose return address 0xf0ff lies on the page
\* before the one resumed at, with the two bytes at 0x81 and 0x80
C40_Witness ==
    /\ cpuObs.at = "back" /\ cpuObs.jsr = 61693 /\ cpuObs.to = 4660 /\ cpuObs.sp = 129
    /\ cpu.pc = 61696 /\ cpu.sp = 129
    /\ ByteAt(riot.ram, 1) = 240 /\ ByteAt(riot.ram, 0) = 255

-----------------------------------------------------------------------------
(* tia/audio/mod.rs: Audio::step.  The file is not declared as a module of  *)
(* tia (tia/mod.rs:1-8) and the TIA holds no Audio (tia/mod.rs:64-105), so  *)
(* TIA::clock leaves an Audio as it is.                                     *)

\* Audio::default()
Audio_new == [ clock_228 |-> 0 ]

\* step(): the Audio after the call, which phase of the two channels it ran
\* ("none": neither) and what it returned
Audio_step(a) ==
    IF a.clock_228 + 1 >= 228
    THEN [ a |-> [a EXCEPT !.clock_228 = 0], phase |-> "none", ret |-> FALSE ]
    ELSE [ a |-> [a EXCEPT !.clock_228 = @ + 1],
           phase |-> CASE a.clock_228 + 1 \in {10, 82} -> "phase0"
                       [] a.clock_228 + 1 \in {38, 150} -> "phase1"
                       [] OTHER -> "none",
           ret |-> a.clock_228 + 1 \in {38, 150} ]

\* How many TIA clocks and how many calls of step() a run is followed for.
MaxAudioClocks == 2
MaxAudioCalls == 460

\* a: the Audio; calls: calls of step() so far; log: what each of the last 228
\* calls did, the latest last, as <<phase, returned, clock_228 after the call>>
InitAudio ==
    /\ checks = FALSE /\ fault = FALSE
    /\ tia = TIA_default /\ tiaObs = TiaObsInit
    /\ core = [ a |-> Audio_new, calls |-> 0, log |-> <<>> ]
    /\ cnt = Unused /\ cntObs = Unused /\ dec = Unused /\ cpu = Unused
    /\ cpuObs = Unused /\ riot = Unused /\ riotObs = Unused /\ rom = Unused
    /\ busObs = Unused

\* a call of step(); the crate makes none, the caller is whoever holds an Audio
AudioStep ==
    /\ Running /\ core.calls < MaxAudioCalls
    /\ \E got \in {Audio_step(core.a)} :
         core' = [ a |-> got.a, calls |-> core.calls + 1,
                   log |-> (IF Len(core.log) = CLOCKS_PER_SCANLINE
                            THEN Tail(core.log) ELSE core.log)
                           \o << <<got.phase, got.ret, got.a.clock_228>> >> ]
    /\ UNCHANGED <<checks, fault, tia, tiaObs, cnt, cntObs, dec, cpu, cpuObs, riot,
                   riotObs, rom, busObs>>

NextAudio ==
    \/ (tiaObs.clk < MaxAudioClocks /\ TiaClock)
    \/ AudioStep

SpecAudio == InitAudio /\ [][NextAudio]_vars

\* the calls among the last 228 that ran the given phase, and those that
\* returned true
CallsThatRan(phase) == { i \in 1..Len(core.log) : core.log[i][1] = phase }
CallsThatReturned == { i \in 1..Len(core.log) : core.log[i][2] }

\* any 228 calls in a row run phase 0 twice and phase 1 twice and return true
\* twice, on the calls that bring clock_228 to 38 and to 150
AudioSchedule ==
    Len(core.log) = CLOCKS_PER_SCANLINE =>
        /\ Cardinality(CallsThatRan("phase0")) = 2
        /\ Cardinality(CallsThatRan("phase1")) = 2
        /\ Cardinality(CallsThatReturned) = 2
        /\ { core.log[i][3] : i \in CallsThatReturned } = {38, 150}
        /\ CallsThatReturned = CallsThatRan("phase1")

\* C32: every clock of the TIA makes one call of Audio::step(); within every
\* 228 calls in a row step() runs phase 0 of both channels twice and phase 1 of
\* both twice, and returns true twice, on the calls where clock_228 reaches 38
\* and 150.
C32_AudioPerClock ==
    /\ [][ tiaObs'.clk = tiaObs.clk + 1 => core'.calls = core.calls + 1 ]_vars
    /\ []AudioSchedule

-----------------------------------------------------------------------------
(* SpecFire: the fire button of the left joystick, writes to VBLANK and     *)
(* reads of INPT4                                                           *)

\* VBLANK := 0x00, 0x02, 0x40, 0x42, 0x80, 0xc0: bit 6 enables the latch
VblankValues == { 0, 2, 64, 66, 128, 192 }

\* How many operations a run is followed for.
MaxFireSteps == 5

\* n: operations so far; op: the last one; val: the byte written or read;
\* held: the button has gone down with the latch enabled, and no write to
\* VBLANK with bit 6 set has followed
InitFire ==
    /\ checks = FALSE /\ fault = FALSE
    /\ tia = TIA_default
    /\ tiaObs = [ n |-> 0, op |-> "none", val |-> 0, held |-> FALSE ]
    /\ cnt = Unused /\ cntObs = Unused /\ dec = Unused /\ cpu = Unused
    /\ cpuObs = Unused /\ riot = Unused /\ riotObs = Unused /\ rom = Unused
    /\ busObs = Unused /\ core = Unused

LatchEnabled(t) == (t.vblank \div 64) % 2 = 1

JoystickFire(pressed) ==
    /\ Running /\ tiaObs.n < MaxFireSteps
    /\ tia' = TIA_joystick_fire(tia, pressed)
    /\ tiaObs' = [ n |-> tiaObs.n + 1, op |-> IF pressed THEN "press" ELSE "release",
                   val |-> 0, held |-> tiaObs.held \/ (pressed /\ LatchEnabled(tia)) ]
    /\ UNCHANGED fault /\ UNCHANGED notTia

WriteVblank(val) ==
    /\ Running /\ tiaObs.n < MaxFireSteps
    /\ tia' = TIA_write(tia, 1, val)
    /\ tiaObs' = [ n |-> tiaObs.n + 1, op |-> "write", val |-> val,
                   held |-> tiaObs.held /\ (val \div 64) % 2 = 0 ]
    /\ UNCHANGED fault /\ UNCHANGED notTia

ReadInpt4 ==
    /\ Running /\ tiaObs.n < MaxFireSteps
    /\ tiaObs' = [tiaObs EXCEPT !.n = @ + 1, !.op = "read", !.val = TIA_read(tia, 60)]
    /\ UNCHANGED <<fault, tia>> /\ UNCHANGED notTia

NextFire ==
    \/ \E pressed \in BOOLEAN : JoystickFire(pressed)
    \/ \E val \in VblankValues : WriteVblank(val)
    \/ ReadInpt4

SpecFire == InitFire /\ [][NextFire]_vars

\* C33: with the latch enabled (bit 6 of VBLANK), once the fire button has gone
\* down INPT4 reads as pressed (bit 7 clear), whatever the button does
\* afterwards, until the latch is reset; a write to VBLANK with bit 6 set resets
\* the latch to logic one.
C33_InputLatch ==
    /\ (tiaObs.op = "read" /\ LatchEnabled(tia) /\ tiaObs.held) => tiaObs.val < 128
    /\ (tiaObs.op = "write" /\ (tiaObs.val \div 64) % 2 = 1) => tia.inpt4_latch

-----------------------------------------------------------------------------
(* SpecRsync: the TIA under clock() and strobes of RSYNC                    *)

\* How many scanlines' worth of clocks a run is followed for, and how many
\* strobes of RSYNC it takes.
MaxRsyncLines == 2
MaxRsyncs == 2

\* The clock counts after which the program may strobe RSYNC: in the blank, on
\* the last blank clock, early, midway and late in the picture, on the last
\* clock of the line and in the second line.  A further strobe may also come
\* while the counter's reset after a strobe is pending.
RsyncClocks == { 1, 67, 70, 150, 226, 228, 300 }

\* the n-th strobe writes n, so that the register's last value counts them
Rsync(n) ==
    /\ ByteAt(tiaObs.regs, 3) = n - 1
    /\ tiaObs.op = "clock"
    /\ tiaObs.clk \in RsyncClocks \/ tia.ctr.reset_delay > 0
    /\ TiaWrite(3, n)

NextRsync ==
    \/ (tiaObs.clk < MaxRsyncLines * CLOCKS_PER_SCANLINE /\ TiaClock)
    \/ \E n \in 1..MaxRsyncs : Rsync(n)

SpecRsync == InitTia /\ [][NextRsync]_vars

\* the index clock() writes the pixel at, from the counter as its own clock
\* has left it
PixelIndex(t) == t.ctr.internal_value - 68

\* C34: whenever clock() writes a pixel its index, the master counter's
\* internal value - 68, is in 0..159, after strobes of RSYNC as without; on a
\* scanline with no RSYNC the clocks 68..227 of the 228 are the visible ones and
\* clock k of them writes index k - 68, so that 160 clocks are visible, 68 are
\* blank and each index 0..159 is written once.
C34_PixelIndex ==
    [][ tiaObs'.clk = tiaObs.clk + 1 =>
          /\ TIA_visible_cycle(tia') => PixelIndex(tia') \in 0..159
          /\ 3 \notin DOMAIN tiaObs.regs =>
                /\ TIA_visible_cycle(tia') <=> (tiaObs'.clk % CLOCKS_PER_SCANLINE) >= 68
                /\ TIA_visible_cycle(tia') =>
                      PixelIndex(tia') = (tiaObs'.clk % CLOCKS_PER_SCANLINE) - 68
      ]_vars

\* the first pixel of the line that a strobe of RSYNC after clock 150 began:
\* index 0 is written at clock 225, not at clock 296
C34_Witness ==
    /\ tiaObs.op = "clock" /\ ByteAt(tiaObs.regs, 3) = 1 /\ tiaObs.clk = 225
    /\ TIA_visible_cycle(tia) /\ PixelIndex(tia) = 0

\* C37: after every visible clock the playfield's counter has gone through the
\* index of the pixel just drawn and stands one past it (mod 160), whatever
\* clocks, writes and strobes of RSYNC came before.
C37_PlayfieldInStep ==
    [][ (tiaObs'.clk = tiaObs.clk + 1 /\ TIA_visible_cycle(tia')) =>
          /\ tia.pf.ctr.internal_value = PixelIndex(tia')
          /\ tia'.pf.ctr.internal_value = (PixelIndex(tia') + 1) % 160
      ]_vars

-----------------------------------------------------------------------------
(* SpecHmove: motion registers written before the first clock, then two     *)
(* scanlines with at most one strobe of HMOVE in the blank of each          *)

\* HMP0 := 0x70, 0x80; HMM0 := 0xf0; HMBL := 0x10 (15, 0, 7 and 9 extra ticks;
\* a register left at 0 gives 8), as <<address, value>>
MotionWrites == { <<32, 112>>, <<32, 128>>, <<34, 240>>, <<36, 16>> }

\* The clocks of a line after which HMOVE may be strobed: 75 - c blank clocks
\* are then still to come, the 8 of the extension counted, and 15 or more of
\* them for c up to 60.
HmoveClocks == { 0, 3, 30, 60 }

\* How many scanlines a run is followed for.
MaxHmoveLines == 2

\* the strobe in line 1 adds 1 to the value written, the strobe in line 2 adds
\* 2, so that the register's last value tells the lines that had one
Hmove(line) ==
    /\ tiaObs.clk \div CLOCKS_PER_SCANLINE = line - 1
    /\ tiaObs.clk % CLOCKS_PER_SCANLINE \in HmoveClocks
    /\ ByteAt(tiaObs.regs, 42) < line
    /\ TiaWrite(42, ByteAt(tiaObs.regs, 42) + line)

NextHmove ==
    \/ (tiaObs.clk < MaxHmoveLines * CLOCKS_PER_SCANLINE /\ TiaClock)
    \/ \E w \in MotionWrites : tiaObs.clk = 0 /\ tiaObs.op # "clock"
                               /\ 42 \notin DOMAIN tiaObs.regs /\ TiaWrite(w[1], w[2])
    \/ \E line \in 1..MaxHmoveLines : Hmove(line)

SpecHmove == InitTia /\ [][NextHmove]_vars

\* the clocks an object's counter takes in a line: 160, or 152 + T in a line
\* with a strobe of HMOVE, T the extra ticks of its motion register
LineAdvance(o, strobed) ==
    IF strobed THEN 152 + ticks_to_add(o.hmove_offset) ELSE 160

StrobedInLine(line) == (ByteAt(tiaObs.regs, 42) \div line) % 2 = 1

\* where the counter of an object stands after the lines clocked so far, every
\* counter being at 0 at power-on
AfterLines(o) ==
    CASE tiaObs.clk = CLOCKS_PER_SCANLINE -> LineAdvance(o, StrobedInLine(1)) % 160
      [] tiaObs.clk = 2 * CLOCKS_PER_SCANLINE ->
            (LineAdvance(o, StrobedInLine(1)) + LineAdvance(o, StrobedInLine(2))) % 160
      [] OTHER -> o.ctr.internal_value

\* C31: on a scanline in whose blank HMOVE is strobed with 15 or more blank
\* clocks to come, the 8 of the extension counted, and the motion registers
\* left as they are, the counter of each of the five objects advances by
\* 152 + T clocks, T in 0..15 its extra ticks, where a line without the strobe
\* gives it 160: the object ends T - 8 pixels further left, from 8 to the
\* right (T = 0) to 7 to the left (T = 15).
C31_HmoveAdvance ==
    tiaObs.op = "clock" =>
        /\ tia.p0.ctr.internal_value = AfterLines(tia.p0)
        /\ tia.p1.ctr.internal_value = AfterLines(tia.p1)
        /\ tia.m0.ctr.internal_value = AfterLines(tia.m0)
        /\ tia.m1.ctr.internal_value = AfterLines(tia.m1)
        /\ tia.bl.ctr.internal_value = AfterLines(tia.bl)

\* the end of a first line with HMP0 = 0x70, HMBL = 0x10 and HMOVE strobed:
\* player 0 has taken 167 clocks, the ball 161, and the others 160
C31_Witness ==
    /\ tiaObs.op = "clock" /\ tiaObs.clk = CLOCKS_PER_SCANLINE /\ StrobedInLine(1)
    /\ tia.p0.hmove_offset = 112 /\ tia.bl.hmove_offset = 16 /\ tia.m0.hmove_offset = 0
    /\ tia.p0.ctr.internal_value = 7 /\ tia.bl.ctr.internal_value = 1
    /\ tia.m0.ctr.internal_value = 0 /\ ~tia.p0.ctr.movement_required

====
